---- MODULE Spec2Model ----
(***************************************************************************)
(* Model of the stream sender of libARStream (Sources/ARSTREAM_Sender.c):  *)
(* the bounded queue of next frames, the data (transmit) thread, the ack   *)
(* thread, the network send callback and the public API called by the      *)
(* application thread.                                                     *)
(*                                                                         *)
(* Granularity.  A step of the model is a piece of code that runs under    *)
(* one mutex without releasing it, together with the lock-free code that   *)
(* leads to it when that code reads or writes nothing another thread's     *)
(* step depends on in between.  The position of a worker is the place of   *)
(* the code it will run next:                                              *)
(*   data thread  idle, launched, loop (the while test and PopFromQueue),  *)
(*                wait (in ARSAL_Cond_Timedwait), newFrame (PopFromQueue   *)
(*                returned 1, before the lock of ackMutex), lockSend       *)
(*                (before the locks of the retransmit pass), netSend (in   *)
(*                ARNETWORK_Manager_SendData), exited                      *)
(*   ack thread   idle, launched, loop (the while test and the read),      *)
(*                wasAck and signal (in FrameWasAck), exited               *)
(***************************************************************************)
EXTENDS Integers, Sequences, FiniteSets, TLC

(***************************************************************************)
(* Bounds of the model.                                                    *)
(***************************************************************************)
\* framesBufferSize handed to ARSTREAM_Sender_New (capacity of nextFrames)
MaxQueue == 2
\* most frames the application ever hands to AddToQueue
MaxSubmits == 4
\* Core: number of SendNewFrame calls that reach AddToQueue, and fragments of
\* one frame handed to the network after which no retry tick happens
CoreSubmits == 3
CoreSends == 2
\* Flush: number of SendNewFrame calls that reach AddToQueue
FlushSubmits == 4
\* Inputs: number of SendNewFrame calls that reach AddToQueue
InputSubmits == 2
\* Live: number of SendNewFrame calls
LiveSubmits == 1
\* Stop: number of SendNewFrame calls
StopSubmits == 2
\* most fragments of a submitted frame
MaxFragments == 3
\* Net: number of SendNewFrame calls, and fragments of one frame handed to
\* the network after which no retry tick happens
NetSubmits == 1
NetSends == 6
\* Eff: number of SendNewFrame calls, fragments of one frame handed to the
\* network after which no retry tick happens, and number of the last frame
\* the peer acknowledges
EffSubmits == 16
EffSends == 6
EffAckedFrames == 1
\* Wait: number of SendNewFrame calls, and fragments of one frame handed to
\* the network after which no retry tick happens
WaitSubmits == 2
WaitSends == 4

(***************************************************************************)
(* Constants of the program.                                               *)
(***************************************************************************)
\* ARSTREAM_NetworkHeaders.h (not part of the sources at hand)
ARSTREAM_NETWORK_HEADERS_FRAGMENT_SIZE == 1000
ARSTREAM_NETWORK_HEADERS_MAX_FRAGMENTS_PER_FRAME == 128
ARSTREAM_NETWORK_HEADERS_MAX_FRAME_SIZE ==
    ARSTREAM_NETWORK_HEADERS_FRAGMENT_SIZE * ARSTREAM_NETWORK_HEADERS_MAX_FRAGMENTS_PER_FRAME
ARSTREAM_SENDER_EFFICIENCY_AVERAGE_NB_FRAMES == 15
\* width of ARSTREAM_NetworkHeaders_AckPacket_t.frameNumber (read with dtohs)
AckFrameNumberBits == 16

NULL == 0
maxNumberOfNextFrames == MaxQueue

(***************************************************************************)
(* Inputs.                                                                 *)
(***************************************************************************)
\* size of the frames the application submits: two fragments
CoreSizes == {ARSTREAM_NETWORK_HEADERS_FRAGMENT_SIZE + 1}
\* sizes SendNewFrame is called with, the refused ones included
SubmitSizes == CoreSizes \cup {0, ARSTREAM_NETWORK_HEADERS_MAX_FRAME_SIZE + 1}
\* values of flushPreviousFrames the application passes
FlushArgs == {0, 1, 2}
\* fragment indices of the submitted frames; an acknowledge packet carries a subset
AckBits == 0 .. ((ARSTREAM_NETWORK_HEADERS_FRAGMENT_SIZE + 1 +
                  ARSTREAM_NETWORK_HEADERS_FRAGMENT_SIZE - 1)
                 \div ARSTREAM_NETWORK_HEADERS_FRAGMENT_SIZE - 1)
\* fragment indices of the largest frames submitted
FragmentIndices == 0 .. (MaxFragments - 1)
\* Net: size of the frames the application submits: three fragments
NetSizes == {2 * ARSTREAM_NETWORK_HEADERS_FRAGMENT_SIZE + 1}
\* Wait: what ARNETWORK_Manager_GetEstimatedLatency returns (ms)
WaitLatencies == {-1, 0, 9, 10, 11, 44, 45, 46, 100}
\* fragment indices a frame accepted by SendNewFrame can have
PacketIndices == 0 .. (ARSTREAM_NETWORK_HEADERS_MAX_FRAGMENTS_PER_FRAME - 1)
\* Sizes: the frame sizes SendNewFrame is called with, around the multiples
\* of the fragment size and around the largest size
FragmentLawSizes ==
    {0, 1,
     ARSTREAM_NETWORK_HEADERS_FRAGMENT_SIZE - 1,
     ARSTREAM_NETWORK_HEADERS_FRAGMENT_SIZE,
     ARSTREAM_NETWORK_HEADERS_FRAGMENT_SIZE + 1,
     2 * ARSTREAM_NETWORK_HEADERS_FRAGMENT_SIZE,
     2 * ARSTREAM_NETWORK_HEADERS_FRAGMENT_SIZE + 1,
     ARSTREAM_NETWORK_HEADERS_MAX_FRAME_SIZE - ARSTREAM_NETWORK_HEADERS_FRAGMENT_SIZE,
     ARSTREAM_NETWORK_HEADERS_MAX_FRAME_SIZE - ARSTREAM_NETWORK_HEADERS_FRAGMENT_SIZE + 1,
     ARSTREAM_NETWORK_HEADERS_MAX_FRAME_SIZE - 1,
     ARSTREAM_NETWORK_HEADERS_MAX_FRAME_SIZE,
     ARSTREAM_NETWORK_HEADERS_MAX_FRAME_SIZE + 1}
ETIMEDOUT == 110
ARSTREAM_SENDER_DEFAULT_ESTIMATED_LATENCY_MS == 100
ARSTREAM_SENDER_MINIMUM_TIME_BETWEEN_RETRIES_MS == 15
ARSTREAM_SENDER_MAXIMUM_TIME_BETWEEN_RETRIES_MS == 50
\* the value found in the malloc'd, never initialised ackPacket.frameNumber
GarbageFrameNumbers == {0, 2}
\* frame numbers carried by the acknowledge packets read from the network
AckFrameNumbers == 0 .. MaxSubmits

NoFrame == [frameNumber |-> 0, frameSize |-> 0, frameBuffer |-> NULL, isHighPriority |-> 0]

\* the last call of the API: arguments, return value, what it wrote to
\* *nbPreviousFrames, and the buffers that were waiting in the queue when it began
NoOp == [op |-> "none", ret |-> "none", buffer |-> NULL, size |-> 0, flush |-> 0,
         prevWritten |-> FALSE, prev |-> 0, ahead |-> <<>>]

VARIABLES
    \* struct ARSTREAM_Sender_t
    currentFrame, currentFrameNbFragments, currentFrameCbWasCalled,
    packetsToSend, ackPacket,
    nextFrameNumber, indexAddNextFrame, indexGetNextFrame, numberOfWaitingFrames,
    nextFrames,
    threadsShouldStop, dataThreadStarted, ackThreadStarted,
    efficiency_nbFragments, efficiency_nbSent, efficiency_index,
    \* mutexes and condition variable: who holds them, whether a signal woke the waiter
    ackMutex, packetsToSendMutex, condSignalled,
    \* ARSTREAM_Sender_RunDataThread: position and locals
    dataPc, nextFrame, nbPackets, lastFragmentSize,
    numbersOfFragmentsSentForCurrentFrame, cnt,
    \* ARSTREAM_Sender_PopFromQueue, called by the data thread: locals (ms)
    hadTimeout, timewaited, waitTime,
    \* ARSTREAM_Sender_RunAckThread: position
    ackPc,
    \* the network manager: send callbacks it still owes for the frame being
    \* sent; its estimate of the latency (ms, negative when it has none)
    netPending, estimatedLatency,
    \* the instance was freed by ARSTREAM_Sender_Delete; a worker used it afterwards
    destroyed, useAfterFree,
    \* what an observer sees: the callbacks, the flushes of the network buffer
    \* and the installs of a current frame, in order; the frames accepted, by
    \* frame number; the buffers handed to AddToQueue; the fragments emitted,
    \* by frame number; the last call of the API and what it returned
    trace, accepted, nbBuffers, emitted, lastOp,
    \* the mutexes locked by a thread that held another one: who, which, holding which
    nested

senderVars == <<currentFrame, currentFrameNbFragments, currentFrameCbWasCalled,
                packetsToSend, ackPacket>>
queueVars == <<nextFrameNumber, indexAddNextFrame, indexGetNextFrame,
               numberOfWaitingFrames, nextFrames>>
flagVars == <<threadsShouldStop, dataThreadStarted, ackThreadStarted>>
effVars == <<efficiency_nbFragments, efficiency_nbSent, efficiency_index>>
lockVars == <<ackMutex, packetsToSendMutex, condSignalled>>
popVars == <<hadTimeout, timewaited, waitTime>>
dataVars == <<dataPc, nextFrame, nbPackets, lastFragmentSize,
              numbersOfFragmentsSentForCurrentFrame, cnt, popVars>>
histVars == <<trace, accepted, nbBuffers, emitted, nested>>
vars == <<senderVars, queueVars, flagVars, effVars, lockVars, dataVars, ackPc,
          netPending, estimatedLatency, destroyed, useAfterFree, histVars, lastOp>>

(***************************************************************************)
(* ARSTREAM_NetworkHeaders_AckPacket_t: a frame number and a 128-bit       *)
(* bitmap, held as the set of the fragment indices whose bit is set.       *)
(***************************************************************************)
AckPacketReset == {}
AckPacketSetFlag(bits, i) == bits \cup {i}
AckPacketUnsetFlag(bits, i) == bits \ {i}
AckPacketFlagIsSet(bits, i) == i \in bits
AckPacketSetFlags(bits, other) == bits \cup other
AckPacketAllFlagsSet(bits, n) == \A i \in 0 .. (n - 1) : i \in bits

\* a frame number as stored in the 16-bit field of an ack packet
ToAckFrameNumber(n) == n % (2 ^ AckFrameNumberBits)

(***************************************************************************)
(* The application callback, recorded in the order of the calls.           *)
(***************************************************************************)
Cb(status, frame) == [status |-> status, buffer |-> frame.frameBuffer, size |-> frame.frameSize]
\* ARNETWORK_Manager_FlushInputBuffer on the data buffer
NetFlush == [status |-> "NETFLUSH", buffer |-> NULL, size |-> 0]
\* the data thread makes a frame the current frame
Install(frame) == [status |-> "INSTALL", buffer |-> frame.frameBuffer, size |-> frame.frameSize]

(***************************************************************************)
(* The queue of next frames: nextFrames[i] of the code is nextFrames[i+1]. *)
(***************************************************************************)
\* the thread locks mutex while it holds the mutex holding
LockedWhileHolding(thread, mutex, holding) ==
    [thread |-> thread, mutex |-> mutex, holding |-> holding]

\* the ring read from the other end
Slot_Reversed(i) == nextFrames[maxNumberOfNextFrames - i]

Slot(i) == nextFrames[i + 1]

\* the frames waiting in the ring, oldest first
WaitingFrames ==
    [k \in 1 .. numberOfWaitingFrames |->
        Slot((indexGetNextFrame + k - 1) % maxNumberOfNextFrames)]

Init ==
    /\ currentFrame = NoFrame
    /\ currentFrameNbFragments = 0
    /\ currentFrameCbWasCalled = 0
    \* packetsToSend and ackPacket are left as malloc returned them
    /\ packetsToSend = [frameNumber |-> 0, bits |-> {}]
    /\ ackPacket \in [frameNumber : GarbageFrameNumbers, bits : {{}}]
    /\ nextFrameNumber = 0
    /\ indexAddNextFrame = 0
    /\ indexGetNextFrame = 0
    /\ numberOfWaitingFrames = 0
    /\ nextFrames = [i \in 1 .. maxNumberOfNextFrames |-> NoFrame]
    /\ threadsShouldStop = 0
    /\ dataThreadStarted = 0
    /\ ackThreadStarted = 0
    /\ efficiency_nbFragments = [i \in 1 .. ARSTREAM_SENDER_EFFICIENCY_AVERAGE_NB_FRAMES |-> 0]
    /\ efficiency_nbSent = [i \in 1 .. ARSTREAM_SENDER_EFFICIENCY_AVERAGE_NB_FRAMES |-> 0]
    /\ efficiency_index = 0
    /\ ackMutex = "free"
    /\ packetsToSendMutex = "free"
    /\ condSignalled = FALSE
    /\ dataPc = "idle"
    /\ nextFrame = NoFrame
    /\ nbPackets = 0
    /\ lastFragmentSize = 0
    /\ numbersOfFragmentsSentForCurrentFrame = 0
    /\ cnt = 0
    /\ hadTimeout = 0
    /\ timewaited = 0
    /\ waitTime = 0
    /\ ackPc = "idle"
    /\ netPending = [i \in PacketIndices |-> 0]
    /\ estimatedLatency = -1
    /\ destroyed = FALSE
    /\ useAfterFree = FALSE
    /\ trace = <<>>
    /\ accepted = <<>>
    /\ nbBuffers = 0
    /\ emitted = [f \in 1 .. EffSubmits |-> {}]
    /\ lastOp = NoOp
    /\ nested = {}

(***************************************************************************)
(* ARSTREAM_Sender_FlushQueue: the loop, one waiting frame per turn.       *)
(* q = [get, count, cbs]: the two indices and the callbacks made so far.   *)
(***************************************************************************)
\* the loop taken from the tail of the queue: the youngest frame is cancelled first
RECURSIVE FlushQueue_YoungestFirst(_)
FlushQueue_YoungestFirst(q) ==
    IF q.count > 0
    THEN FlushQueue_YoungestFirst(
             [get   |-> (q.get + 1) % maxNumberOfNextFrames,
              count |-> q.count - 1,
              cbs   |-> <<Cb("FRAME_CANCEL", Slot(q.get))>> \o q.cbs])
    ELSE q

\* the loop without line 214: the waiting frames are dropped silently
RECURSIVE FlushQueue_Silent(_)
FlushQueue_Silent(q) ==
    IF q.count > 0
    THEN FlushQueue_Silent([get   |-> (q.get + 1) % maxNumberOfNextFrames,
                            count |-> q.count - 1,
                            cbs   |-> q.cbs])
    ELSE q

RECURSIVE FlushQueue(_)
FlushQueue(q) ==
    IF q.count > 0
    THEN FlushQueue([get   |-> (q.get + 1) % maxNumberOfNextFrames,
                     count |-> q.count - 1,
                     cbs   |-> Append(q.cbs, Cb("FRAME_CANCEL", Slot(q.get)))])
    ELSE q

\* the value AddToQueue starts its return value with
AddToQueuePrev ==
    numberOfWaitingFrames + (IF currentFrameCbWasCalled = 0 THEN 1 ELSE 0)

\* the test with <= in place of <
QueueHasRoom_OneMore(count) == count <= maxNumberOfNextFrames

\* the test of AddToQueue that decides between storing the frame and -1
QueueHasRoom(count) == count < maxNumberOfNextFrames

\* the argument check without the test of frameSize
BadParameters_SizeUnchecked(buffer, size, flush) ==
    \/ buffer = NULL
    \/ (flush # 0 /\ flush # 1)

\* the argument check of SendNewFrame
BadParameters(buffer, size, flush) ==
    \/ buffer = NULL
    \/ size = 0
    \/ (flush # 0 /\ flush # 1)

FrameTooLarge(size) == size > ARSTREAM_NETWORK_HEADERS_MAX_FRAME_SIZE

(***************************************************************************)
(* ARSTREAM_Sender_SendNewFrame, with ARSTREAM_Sender_AddToQueue and       *)
(* ARSTREAM_Sender_FlushQueue, which run under nextFrameMutex.             *)
(***************************************************************************)
SendNewFrameRefused(buffer, size, flush) ==
    /\ ~destroyed
    /\ BadParameters(buffer, size, flush) \/ FrameTooLarge(size)
    /\ lastOp' = [op |-> "SendNewFrame",
                  ret |-> IF BadParameters(buffer, size, flush)
                          THEN "BAD_PARAMETERS" ELSE "FRAME_TOO_LARGE",
                  buffer |-> buffer, size |-> size, flush |-> flush,
                  prevWritten |-> FALSE, prev |-> 0, ahead |-> <<>>]
    /\ UNCHANGED <<senderVars, queueVars, flagVars, effVars, lockVars, dataVars, ackPc,
                   netPending, estimatedLatency, destroyed, useAfterFree, histVars>>

SendNewFrameQueued(buffer, size, flush) ==
    /\ ~destroyed
    /\ ~BadParameters(buffer, size, flush)
    /\ ~FrameTooLarge(size)
    /\ LET retVal == AddToQueuePrev
           ahead == [k \in DOMAIN WaitingFrames |-> WaitingFrames[k].frameBuffer]
           q0 == [get |-> indexGetNextFrame, count |-> numberOfWaitingFrames, cbs |-> <<>>]
           q1 == IF flush = 1 THEN FlushQueue(q0) ELSE q0
           stored == QueueHasRoom(q1.count)
           frame == [frameNumber |-> nextFrameNumber + 1, frameSize |-> size,
                     frameBuffer |-> buffer, isHighPriority |-> flush]
       IN /\ indexGetNextFrame' = q1.get
          /\ trace' = trace \o q1.cbs
          /\ nbBuffers' = nbBuffers + 1
          /\ IF stored
             THEN /\ nextFrameNumber' = nextFrameNumber + 1
                  /\ nextFrames' = [nextFrames EXCEPT ![indexAddNextFrame + 1] = frame]
                  /\ indexAddNextFrame' = (indexAddNextFrame + 1) % maxNumberOfNextFrames
                  /\ numberOfWaitingFrames' = q1.count + 1
                  /\ condSignalled' = IF dataPc = "wait" THEN TRUE ELSE condSignalled
                  /\ accepted' = Append(accepted,
                                        [buffer |-> buffer, size |-> size, flush |-> flush])
                  /\ lastOp' = [op |-> "SendNewFrame", ret |-> "OK",
                                buffer |-> buffer, size |-> size, flush |-> flush,
                                prevWritten |-> TRUE, prev |-> retVal, ahead |-> ahead]
             ELSE /\ numberOfWaitingFrames' = q1.count
                  /\ lastOp' = [op |-> "SendNewFrame", ret |-> "QUEUE_FULL",
                                buffer |-> buffer, size |-> size, flush |-> flush,
                                prevWritten |-> FALSE, prev |-> 0, ahead |-> ahead]
                  /\ UNCHANGED <<nextFrameNumber, nextFrames, indexAddNextFrame,
                                 condSignalled, accepted>>
    /\ UNCHANGED <<senderVars, flagVars, effVars, ackMutex, packetsToSendMutex, dataVars,
                   ackPc, netPending, estimatedLatency, destroyed, useAfterFree, emitted,
                   nested>>


(***************************************************************************)
(* ARSTREAM_Sender_StopSender and ARSTREAM_Sender_Delete.                  *)
(***************************************************************************)
\* a StopSender that also cancels the frames waiting in the queue
StopSender_FlushesQueue ==
    /\ ~destroyed
    /\ threadsShouldStop = 0
    /\ threadsShouldStop' = 1
    /\ LET q == FlushQueue([get |-> indexGetNextFrame, count |-> numberOfWaitingFrames,
                            cbs |-> <<>>])
       IN /\ indexGetNextFrame' = q.get
          /\ numberOfWaitingFrames' = q.count
          /\ trace' = trace \o q.cbs
    /\ lastOp' = NoOp
    /\ UNCHANGED <<senderVars, nextFrameNumber, indexAddNextFrame, nextFrames,
                   dataThreadStarted, ackThreadStarted, effVars, lockVars, dataVars, ackPc,
                   netPending, estimatedLatency, destroyed, useAfterFree, accepted,
                   nbBuffers, emitted,
                   nested>>

StopSender ==
    /\ ~destroyed
    /\ threadsShouldStop = 0
    /\ threadsShouldStop' = 1
    /\ lastOp' = NoOp
    /\ UNCHANGED <<senderVars, queueVars, dataThreadStarted, ackThreadStarted, effVars,
                   lockVars, dataVars, ackPc, netPending, estimatedLatency, destroyed,
                   useAfterFree, histVars>>

\* the test of Delete: both workers are marked as not started
CanDelete == dataThreadStarted = 0 /\ ackThreadStarted = 0

Delete ==
    /\ ~destroyed
    /\ destroyed' = CanDelete
    /\ lastOp' = NoOp
    /\ UNCHANGED <<senderVars, queueVars, flagVars, effVars, lockVars, dataVars, ackPc,
                   netPending, useAfterFree, estimatedLatency, histVars>>

(***************************************************************************)
(* ARSTREAM_Sender_PopFromQueue, called by the data thread.                *)
(***************************************************************************)
\* the test as compiled with ENABLE_ACK_WAIT 0: any head is given
FrameIsReady_AnyHead == TRUE

\* the head of the queue may be given to the data thread
FrameIsReady ==
    \/ Slot(indexGetNextFrame).isHighPriority = 1
    \/ currentFrameCbWasCalled = 1

\* the copy without lines 330-331: the read index stays
PopTakesFrame_IndexKept ==
    /\ nextFrame' = Slot(indexGetNextFrame)
    /\ indexGetNextFrame' = indexGetNextFrame
    /\ numberOfWaitingFrames' = numberOfWaitingFrames - 1
    /\ dataPc' = "newFrame"

\* retVal = 1: the head leaves the queue and is copied into newFrame
PopTakesFrame ==
    /\ nextFrame' = Slot(indexGetNextFrame)
    /\ indexGetNextFrame' = (indexGetNextFrame + 1) % maxNumberOfNextFrames
    /\ numberOfWaitingFrames' = numberOfWaitingFrames - 1
    /\ dataPc' = "newFrame"

\* a negative estimate is taken as it is
WaitTimeOf_NoDefault(latency) ==
    LET padded == latency + 5
        capped == IF padded > ARSTREAM_SENDER_MAXIMUM_TIME_BETWEEN_RETRIES_MS
                  THEN ARSTREAM_SENDER_MAXIMUM_TIME_BETWEEN_RETRIES_MS
                  ELSE padded
    IN IF capped < ARSTREAM_SENDER_MINIMUM_TIME_BETWEEN_RETRIES_MS
       THEN ARSTREAM_SENDER_MINIMUM_TIME_BETWEEN_RETRIES_MS
       ELSE capped

\* waitTime, from what ARNETWORK_Manager_GetEstimatedLatency returned
WaitTimeOf(latency) ==
    LET known == IF latency < 0
                 THEN ARSTREAM_SENDER_DEFAULT_ESTIMATED_LATENCY_MS
                 ELSE latency
        padded == known + 5
        capped == IF padded > ARSTREAM_SENDER_MAXIMUM_TIME_BETWEEN_RETRIES_MS
                  THEN ARSTREAM_SENDER_MAXIMUM_TIME_BETWEEN_RETRIES_MS
                  ELSE padded
    IN IF capped < ARSTREAM_SENDER_MINIMUM_TIME_BETWEEN_RETRIES_MS
       THEN ARSTREAM_SENDER_MINIMUM_TIME_BETWEEN_RETRIES_MS
       ELSE capped

\* ARSAL_Cond_Timedwait(cond, mutex, timeout): the pairs <<err, ms elapsed>>
\* it can end with: a wake-up before the timeout, or ETIMEDOUT at the timeout
TimedwaitOutcomes(timeout) ==
    {<<0, e>> : e \in 0 .. timeout} \cup {<<ETIMEDOUT, timeout>>}

\* ARSAL_Cond_Timedwait returns (signal, spurious wake-up or timeout) after
\* elapsed ms and the head of the queue is tested again; a timeout ends the
\* wait loop with retVal 0
DataWaitReturns(err, elapsed) ==
    /\ dataPc = "wait"
    /\ <<err, elapsed>> \in TimedwaitOutcomes(waitTime - timewaited)
    /\ timewaited' = timewaited + elapsed
    /\ hadTimeout' = IF err = ETIMEDOUT THEN 1 ELSE 0
    /\ IF numberOfWaitingFrames > 0 /\ FrameIsReady
       THEN PopTakesFrame
       ELSE /\ dataPc' = IF err = ETIMEDOUT THEN "lockSend" ELSE "wait"
            /\ UNCHANGED <<nextFrame, indexGetNextFrame, numberOfWaitingFrames>>
    /\ condSignalled' = FALSE
    /\ lastOp' = NoOp
    /\ UNCHANGED <<senderVars, nextFrameNumber, indexAddNextFrame, nextFrames, flagVars,
                   effVars, ackMutex, packetsToSendMutex, nbPackets, lastFragmentSize,
                   waitTime, numbersOfFragmentsSentForCurrentFrame, cnt, ackPc,
                   netPending, estimatedLatency, destroyed, useAfterFree, histVars>>

\* the wait ends at once on a wake-up, or lasts up to the timeout
DataWake(err) ==
    DataWaitReturns(err, IF err = ETIMEDOUT THEN waitTime - timewaited ELSE 0)

(***************************************************************************)
(* ARSTREAM_Sender_GetEstimatedEfficiency.                                 *)
(***************************************************************************)
RECURSIVE SumUpTo(_, _)
\* ring[1] + ... + ring[n]
SumUpTo(ring, n) == IF n = 0 THEN 0 ELSE ring[n] + SumUpTo(ring, n - 1)

\* the ratio as it stands, without the two branches that give 1.0
EfficiencyOf_Unclamped(totalPackets, sentPackets) == <<totalPackets, sentPackets>>

\* the float returned, as the fraction <<numerator, denominator>>
EfficiencyOf(totalPackets, sentPackets) ==
    IF sentPackets = 0
    THEN <<1, 1>>
    ELSE IF totalPackets > sentPackets
         THEN <<1, 1>>
         ELSE <<totalPackets, sentPackets>>

\* the two sums are made under ackMutex
GetEstimatedEfficiency ==
    /\ ~destroyed
    /\ ackMutex = "free"
    /\ LET totalPackets == SumUpTo(efficiency_nbFragments,
                                   ARSTREAM_SENDER_EFFICIENCY_AVERAGE_NB_FRAMES)
           sentPackets == SumUpTo(efficiency_nbSent,
                                  ARSTREAM_SENDER_EFFICIENCY_AVERAGE_NB_FRAMES)
       IN lastOp' = [op |-> "GetEstimatedEfficiency",
                     totalPackets |-> totalPackets, sentPackets |-> sentPackets,
                     ret |-> EfficiencyOf(totalPackets, sentPackets)]
    /\ UNCHANGED <<senderVars, queueVars, flagVars, effVars, lockVars, dataVars, ackPc,
                   netPending, estimatedLatency, destroyed, useAfterFree, histVars>>

(***************************************************************************)
(* ARSTREAM_Sender_RunDataThread.                                          *)
(***************************************************************************)
\* the host application creates the thread
DataLaunch ==
    /\ ~destroyed
    /\ dataPc = "idle"
    /\ dataPc' = "launched"
    /\ lastOp' = NoOp
    /\ UNCHANGED <<senderVars, queueVars, flagVars, effVars, lockVars, nextFrame,
                   nbPackets, lastFragmentSize, popVars,
                   numbersOfFragmentsSentForCurrentFrame, cnt,
                   ackPc, netPending, estimatedLatency, destroyed, useAfterFree, histVars>>

\* malloc of sendFragment fails: the thread returns without touching the sender
DataAllocFails ==
    /\ dataPc = "launched"
    /\ dataPc' = "exited"
    /\ lastOp' = NoOp
    /\ UNCHANGED <<senderVars, queueVars, flagVars, effVars, lockVars, nextFrame,
                   nbPackets, lastFragmentSize, popVars,
                   numbersOfFragmentsSentForCurrentFrame, cnt,
                   ackPc, netPending, estimatedLatency, destroyed, useAfterFree, histVars>>

\* sender->dataThreadStarted = 1, on an instance that may have been freed
DataStart ==
    /\ dataPc = "launched"
    /\ IF destroyed
       THEN /\ useAfterFree' = TRUE
            /\ dataPc' = "exited"
            /\ UNCHANGED dataThreadStarted
       ELSE /\ dataThreadStarted' = 1
            /\ dataPc' = "loop"
            /\ UNCHANGED useAfterFree
    /\ lastOp' = NoOp
    /\ UNCHANGED <<senderVars, queueVars, threadsShouldStop, ackThreadStarted, effVars,
                   lockVars, nextFrame, nbPackets, lastFragmentSize, popVars,
                   numbersOfFragmentsSentForCurrentFrame, cnt, ackPc, netPending,
                   estimatedLatency, destroyed, histVars>>

\* while (sender->threadsShouldStop == 0): one more turn, which starts with the
\* first test of PopFromQueue, or the end of the thread (dataThreadStarted = 0)
DataLoop ==
    /\ dataPc = "loop"
    /\ IF threadsShouldStop = 0
       THEN /\ IF numberOfWaitingFrames > 0 /\ FrameIsReady
               THEN /\ PopTakesFrame
                    /\ waitTime' = 0
               ELSE /\ dataPc' = "wait"
                    /\ waitTime' = WaitTimeOf(estimatedLatency)
                    /\ UNCHANGED <<nextFrame, indexGetNextFrame, numberOfWaitingFrames>>
            /\ hadTimeout' = 0
            /\ timewaited' = 0
            /\ UNCHANGED dataThreadStarted
       ELSE /\ dataPc' = "exited"
            /\ dataThreadStarted' = 0
            /\ UNCHANGED <<nextFrame, indexGetNextFrame, numberOfWaitingFrames, popVars>>
    /\ condSignalled' = FALSE
    /\ lastOp' = NoOp
    /\ UNCHANGED <<senderVars, nextFrameNumber, indexAddNextFrame, nextFrames,
                   threadsShouldStop, ackThreadStarted, effVars, ackMutex,
                   packetsToSendMutex, nbPackets, lastFragmentSize,
                   numbersOfFragmentsSentForCurrentFrame, cnt, ackPc, netPending,
                   estimatedLatency, destroyed, useAfterFree, histVars>>

\* the data thread goes on after the call of PopFromQueue: the locals of the
\* call are gone
PopFromQueueReturned ==
    /\ hadTimeout' = 0
    /\ timewaited' = 0
    /\ waitTime' = 0

\* the data thread cancels the frame it replaces
CurrentFrameMustBeCancelled == currentFrameCbWasCalled = 0

\* the division without the fragment for the remainder
NbPacketsOf_RoundedDown(sendSize, old) ==
    IF 0 < sendSize
    THEN sendSize \div ARSTREAM_NETWORK_HEADERS_FRAGMENT_SIZE
    ELSE old

\* number of fragments and size of the last one, as the data thread computes them;
\* for a size of 0 both keep their previous values
NbPacketsOf(sendSize, old) ==
    IF 0 < sendSize
    THEN (sendSize \div ARSTREAM_NETWORK_HEADERS_FRAGMENT_SIZE)
         + (IF sendSize % ARSTREAM_NETWORK_HEADERS_FRAGMENT_SIZE # 0 THEN 1 ELSE 0)
    ELSE old

LastFragmentSizeOf(sendSize, old) ==
    IF 0 < sendSize
    THEN IF sendSize % ARSTREAM_NETWORK_HEADERS_FRAGMENT_SIZE # 0
         THEN sendSize % ARSTREAM_NETWORK_HEADERS_FRAGMENT_SIZE
         ELSE ARSTREAM_NETWORK_HEADERS_FRAGMENT_SIZE
    ELSE old

\* the new-frame block without lines 697 to 708: the replaced frame is dropped
NewFrameCallbacks_NoCancel == <<>>

\* the new-frame block without line 705: the cancel alone
NewFrameCallbacks_NoNetFlush ==
    IF currentFrameCbWasCalled = 0
    THEN <<Cb("FRAME_CANCEL", currentFrame)>>
    ELSE <<>>

\* the callbacks of the new-frame block: the network buffer is flushed and the
\* replaced frame is cancelled when it had no callback yet
NewFrameCallbacks ==
    IF CurrentFrameMustBeCancelled
    THEN <<NetFlush, Cb("FRAME_CANCEL", currentFrame)>>
    ELSE <<>>

\* PopFromQueue gave a frame.  Under ackMutex: efficiency record, cancel of the
\* current frame, the new frame becomes the current frame, both bitmaps are
\* reset (packetsToSend under its own mutex).  Send callbacks still owed for
\* the replaced frame compare unequal to packetsToSend.frameNumber from here
\* on and change nothing: they are dropped from netPending.
DataNewFrame ==
    /\ dataPc = "newFrame"
    /\ ackMutex = "free"
    /\ packetsToSendMutex = "free"
    /\ LET next == (efficiency_index + 1) % ARSTREAM_SENDER_EFFICIENCY_AVERAGE_NB_FRAMES
       IN /\ efficiency_nbFragments' =
                [efficiency_nbFragments EXCEPT ![efficiency_index + 1] = nbPackets,
                                               ![next + 1] = 0]
          /\ efficiency_nbSent' =
                [efficiency_nbSent EXCEPT
                    ![efficiency_index + 1] = numbersOfFragmentsSentForCurrentFrame,
                    ![next + 1] = 0]
          /\ efficiency_index' = next
    /\ numbersOfFragmentsSentForCurrentFrame' = 0
    /\ trace' = (trace \o NewFrameCallbacks) \o <<Install(nextFrame)>>
    /\ currentFrameCbWasCalled' = 0
    /\ currentFrame' = nextFrame
    /\ ackPacket' = [frameNumber |-> ToAckFrameNumber(nextFrame.frameNumber),
                     bits |-> AckPacketReset]
    /\ packetsToSend' = [frameNumber |-> ToAckFrameNumber(nextFrame.frameNumber),
                         bits |-> AckPacketReset]
    /\ nbPackets' = NbPacketsOf(nextFrame.frameSize, nbPackets)
    /\ lastFragmentSize' = LastFragmentSizeOf(nextFrame.frameSize, lastFragmentSize)
    /\ currentFrameNbFragments' = nbPackets'
    /\ netPending' = [i \in PacketIndices |-> 0]
    /\ nested' = nested \cup {LockedWhileHolding("data", "packetsToSendMutex", "ackMutex")}
    /\ dataPc' = "lockSend"
    /\ PopFromQueueReturned
    /\ lastOp' = NoOp
    /\ UNCHANGED <<queueVars, flagVars, lockVars, nextFrame, cnt, ackPc,
                   estimatedLatency, destroyed, useAfterFree, accepted, nbBuffers, emitted>>

\* every fragment flagged, acknowledged or not
PacketsToFlag_All == 0 .. (nbPackets - 1)

\* size of fragment c and place of its first byte in the frame buffer, as
\* the send loop computes them
CurrFragmentSize(c) ==
    IF c = nbPackets - 1 THEN lastFragmentSize ELSE ARSTREAM_NETWORK_HEADERS_FRAGMENT_SIZE
FragmentOffset(c) == ARSTREAM_NETWORK_HEADERS_FRAGMENT_SIZE * c

\* the fragments a pass flags as "to send"
PacketsToFlag == {c \in 0 .. (nbPackets - 1) : ~AckPacketFlagIsSet(ackPacket.bits, c)}

\* the send loop skips the fragments whose flag is not set
RECURSIVE NextPacketToSend(_, _)
NextPacketToSend(bits, c) ==
    IF c < nbPackets /\ ~AckPacketFlagIsSet(bits, c)
    THEN NextPacketToSend(bits, c + 1)
    ELSE c

\* the send loop, from fragment c on, up to the next call of
\* ARNETWORK_Manager_SendData (made with packetsToSendMutex released) or to the
\* end of the pass, where both mutexes are released
SendLoopFrom(bits, c) ==
    LET n == NextPacketToSend(bits, c)
    IN /\ cnt' = n
       /\ IF n < nbPackets
          THEN /\ numbersOfFragmentsSentForCurrentFrame' =
                      numbersOfFragmentsSentForCurrentFrame + 1
               /\ netPending' = [netPending EXCEPT ![n] = @ + 1]
               /\ emitted' = [emitted EXCEPT ![currentFrame.frameNumber] = @ \cup {n}]
               /\ ackMutex' = "data"
               /\ packetsToSendMutex' = "free"
               /\ dataPc' = "netSend"
          ELSE /\ ackMutex' = "free"
               /\ packetsToSendMutex' = "free"
               /\ dataPc' = "loop"
               /\ UNCHANGED <<numbersOfFragmentsSentForCurrentFrame, netPending, emitted>>

\* the retransmit pass: packetsToSendMutex, then ackMutex, are locked, every
\* fragment not acknowledged is flagged, and the send loop starts
DataFlag ==
    /\ dataPc = "lockSend"
    /\ packetsToSendMutex = "free"
    /\ ackMutex = "free"
    /\ packetsToSend' = [packetsToSend EXCEPT !.bits = PacketsToFlag]
    /\ SendLoopFrom(PacketsToFlag, 0)
    /\ nested' = nested \cup {LockedWhileHolding("data", "ackMutex", "packetsToSendMutex")}
    /\ PopFromQueueReturned
    /\ lastOp' = NoOp
    /\ UNCHANGED <<currentFrame, currentFrameNbFragments, currentFrameCbWasCalled, ackPacket,
                   queueVars, flagVars, effVars, condSignalled, nextFrame, nbPackets,
                   lastFragmentSize, ackPc, estimatedLatency, destroyed, useAfterFree,
                   trace, accepted, nbBuffers>>

\* ARNETWORK_Manager_SendData returned: packetsToSendMutex is locked again and
\* the send loop goes on with the flags as the send callbacks left them
DataSendReturns ==
    /\ dataPc = "netSend"
    /\ packetsToSendMutex = "free"
    /\ SendLoopFrom(packetsToSend.bits, cnt + 1)
    /\ nested' = nested \cup {LockedWhileHolding("data", "packetsToSendMutex", "ackMutex")}
    /\ lastOp' = NoOp
    /\ UNCHANGED <<senderVars, queueVars, flagVars, effVars, condSignalled, nextFrame,
                   nbPackets, lastFragmentSize, popVars, ackPc, estimatedLatency,
                   destroyed, useAfterFree,
                   trace, accepted, nbBuffers>>

(***************************************************************************)
(* ARSTREAM_Sender_NetworkCallback, on a thread of the network manager,    *)
(* for a fragment of the frame packetsToSend refers to.                    *)
(***************************************************************************)
NetworkCallback(packetIndex, status) ==
    /\ netPending[packetIndex] > 0
    /\ netPending' = [netPending EXCEPT ![packetIndex] = @ - 1]
    /\ IF status = "SENT"
       THEN /\ packetsToSendMutex = "free"
            /\ packetsToSend' =
                  [packetsToSend EXCEPT !.bits = AckPacketUnsetFlag(@, packetIndex)]
       ELSE UNCHANGED packetsToSend
    /\ lastOp' = NoOp
    /\ UNCHANGED <<currentFrame, currentFrameNbFragments, currentFrameCbWasCalled, ackPacket,
                   queueVars, flagVars, effVars, lockVars, dataVars, ackPc,
                   estimatedLatency, destroyed, useAfterFree, histVars>>

(***************************************************************************)
(* ARSTREAM_Sender_RunAckThread and ARSTREAM_Sender_FrameWasAck.           *)
(***************************************************************************)
\* the host application creates the thread
AckLaunch ==
    /\ ~destroyed
    /\ ackPc = "idle"
    /\ ackPc' = "launched"
    /\ lastOp' = NoOp
    /\ UNCHANGED <<senderVars, queueVars, flagVars, effVars, lockVars, dataVars,
                   netPending, estimatedLatency, destroyed, useAfterFree, histVars>>

\* sender->ackThreadStarted = 1, on an instance that may have been freed
AckStart ==
    /\ ackPc = "launched"
    /\ IF destroyed
       THEN /\ useAfterFree' = TRUE
            /\ ackPc' = "exited"
            /\ UNCHANGED ackThreadStarted
       ELSE /\ ackThreadStarted' = 1
            /\ ackPc' = "loop"
            /\ UNCHANGED useAfterFree
    /\ lastOp' = NoOp
    /\ UNCHANGED <<senderVars, queueVars, threadsShouldStop, dataThreadStarted, effVars,
                   lockVars, dataVars, netPending, estimatedLatency, destroyed, histVars>>

\* the end of the thread without line 842: the flag stays set
AckEnd_FlagKept ==
    /\ ackPc = "loop"
    /\ threadsShouldStop # 0
    /\ ackPc' = "exited"
    /\ lastOp' = NoOp
    /\ UNCHANGED <<senderVars, queueVars, flagVars, effVars,
                   lockVars, dataVars, netPending, estimatedLatency, destroyed,
                   useAfterFree, histVars>>

\* the while test fails: sender->ackThreadStarted = 0
AckEnd ==
    /\ ackPc = "loop"
    /\ threadsShouldStop # 0
    /\ ackPc' = "exited"
    /\ ackThreadStarted' = 0
    /\ lastOp' = NoOp
    /\ UNCHANGED <<senderVars, queueVars, threadsShouldStop, dataThreadStarted, effVars,
                   lockVars, dataVars, netPending, estimatedLatency, destroyed,
                   useAfterFree, histVars>>

\* the received packet is for the frame ackPacket refers to
AckIsForCurrentFrame(recvFrameNumber) == ackPacket.frameNumber = recvFrameNumber

\* the test of the bitmap alone, currentFrameCbWasCalled left aside
FrameIsComplete_BitmapOnly(bits) == AckPacketAllFlagsSet(bits, currentFrameNbFragments)

\* the merged bitmap completes the current frame and no callback was made for it
FrameIsComplete(bits) ==
    /\ currentFrameCbWasCalled = 0
    /\ AckPacketAllFlagsSet(bits, currentFrameNbFragments)

\* the turn with the received bitmap stored in place of the merge
AckReadPacket_Overwrite(recvFrameNumber, recvBits) ==
    /\ ackPc = "loop"
    /\ threadsShouldStop = 0
    /\ ackMutex = "free"
    /\ IF AckIsForCurrentFrame(recvFrameNumber)
       THEN /\ ackPacket' = [ackPacket EXCEPT !.bits = recvBits]
            /\ IF FrameIsComplete(recvBits)
               THEN /\ trace' = Append(trace, Cb("FRAME_SENT", currentFrame))
                    /\ ackMutex' = "ack"
                    /\ ackPc' = "wasAck"
               ELSE UNCHANGED <<trace, ackMutex, ackPc>>
       ELSE UNCHANGED <<ackPacket, trace, ackMutex, ackPc>>
    /\ UNCHANGED <<currentFrame, currentFrameNbFragments, currentFrameCbWasCalled,
                   packetsToSend, queueVars, flagVars, effVars, packetsToSendMutex,
                   condSignalled, dataVars, netPending, estimatedLatency, destroyed,
                   useAfterFree,
                   accepted, nbBuffers, emitted, nested>>

\* One turn of the loop with a packet read from the network (a turn whose read
\* times out, fails or has the wrong size changes nothing).  The packet is
\* applied under ackMutex; when it completes the frame, FrameWasAck starts
\* with the FRAME_SENT callback.
AckReadPacket(recvFrameNumber, recvBits) ==
    /\ ackPc = "loop"
    /\ threadsShouldStop = 0
    /\ ackMutex = "free"
    /\ IF AckIsForCurrentFrame(recvFrameNumber)
       THEN LET merged == AckPacketSetFlags(ackPacket.bits, recvBits)
            IN /\ ackPacket' = [ackPacket EXCEPT !.bits = merged]
               /\ IF FrameIsComplete(merged)
                  THEN /\ trace' = Append(trace, Cb("FRAME_SENT", currentFrame))
                       /\ ackMutex' = "ack"
                       /\ ackPc' = "wasAck"
                  ELSE UNCHANGED <<trace, ackMutex, ackPc>>
       ELSE UNCHANGED <<ackPacket, trace, ackMutex, ackPc>>
    /\ UNCHANGED <<currentFrame, currentFrameNbFragments, currentFrameCbWasCalled,
                   packetsToSend, queueVars, flagVars, effVars, packetsToSendMutex,
                   condSignalled, dataVars, netPending, estimatedLatency, destroyed,
                   useAfterFree,
                   accepted, nbBuffers, emitted, nested>>

\* The same turn in two steps, for the scopes in which StopSender may run
\* between the while test and the return of the read.  The while test passes:
\* the thread is in ARNETWORK_Manager_ReadDataWithTimeout (position read).
AckLoopTest ==
    /\ ackPc = "loop"
    /\ threadsShouldStop = 0
    /\ ackPc' = "read"
    /\ lastOp' = NoOp
    /\ UNCHANGED <<senderVars, queueVars, flagVars, effVars, lockVars, dataVars,
                   netPending, estimatedLatency, destroyed, useAfterFree, histVars>>

\* the read times out, fails or has the wrong size
AckReadNothing ==
    /\ ackPc = "read"
    /\ ackPc' = "loop"
    /\ lastOp' = NoOp
    /\ UNCHANGED <<senderVars, queueVars, flagVars, effVars, lockVars, dataVars,
                   netPending, estimatedLatency, destroyed, useAfterFree, histVars>>

\* the read returns a packet, which is applied under ackMutex
AckReadReturns(recvFrameNumber, recvBits) ==
    /\ ackPc = "read"
    /\ ackMutex = "free"
    /\ IF AckIsForCurrentFrame(recvFrameNumber)
       THEN LET merged == AckPacketSetFlags(ackPacket.bits, recvBits)
            IN /\ ackPacket' = [ackPacket EXCEPT !.bits = merged]
               /\ IF FrameIsComplete(merged)
                  THEN /\ trace' = Append(trace, Cb("FRAME_SENT", currentFrame))
                       /\ ackMutex' = "ack"
                       /\ ackPc' = "wasAck"
                  ELSE /\ ackPc' = "loop"
                       /\ UNCHANGED <<trace, ackMutex>>
       ELSE /\ ackPc' = "loop"
            /\ UNCHANGED <<ackPacket, trace, ackMutex>>
    /\ UNCHANGED <<currentFrame, currentFrameNbFragments, currentFrameCbWasCalled,
                   packetsToSend, queueVars, flagVars, effVars, packetsToSendMutex,
                   condSignalled, dataVars, netPending, estimatedLatency, destroyed,
                   useAfterFree,
                   accepted, nbBuffers, emitted, nested>>

\* FrameWasAck: sender->currentFrameCbWasCalled = 1
AckSetCbWasCalled ==
    /\ ackPc = "wasAck"
    /\ currentFrameCbWasCalled' = 1
    /\ ackPc' = "signal"
    /\ lastOp' = NoOp
    /\ UNCHANGED <<currentFrame, currentFrameNbFragments, packetsToSend, ackPacket,
                   queueVars, flagVars, effVars, lockVars, dataVars, netPending,
                   estimatedLatency, destroyed, useAfterFree, histVars>>

\* FrameWasAck without line 399: the condition is not signalled
AckSignal_NoSignal ==
    /\ ackPc = "signal"
    /\ ackMutex' = "free"
    /\ ackPc' = "loop"
    /\ nested' = nested \cup {LockedWhileHolding("ack", "nextFrameMutex", "ackMutex")}
    /\ lastOp' = NoOp
    /\ UNCHANGED <<senderVars, queueVars, flagVars, effVars, packetsToSendMutex,
                   condSignalled, dataVars, netPending, estimatedLatency, destroyed,
                   useAfterFree,
                   trace, accepted, nbBuffers, emitted>>

\* the ack thread goes back to its loop without line 836: ackMutex stays locked
AckSignal_KeepsAckMutex ==
    /\ ackPc = "signal"
    /\ condSignalled' = IF dataPc = "wait" THEN TRUE ELSE condSignalled
    /\ ackPc' = "loop"
    /\ nested' = nested \cup {LockedWhileHolding("ack", "nextFrameMutex", "ackMutex")}
    /\ lastOp' = NoOp
    /\ UNCHANGED <<senderVars, queueVars, flagVars, effVars, ackMutex, packetsToSendMutex,
                   dataVars, netPending, estimatedLatency, destroyed, useAfterFree,
                   trace, accepted, nbBuffers, emitted>>

\* FrameWasAck: nextFrameCond is signalled under nextFrameMutex; back in the
\* ack thread ackMutex is released
AckSignal ==
    /\ ackPc = "signal"
    /\ condSignalled' = IF dataPc = "wait" THEN TRUE ELSE condSignalled
    /\ ackMutex' = "free"
    /\ ackPc' = "loop"
    /\ nested' = nested \cup {LockedWhileHolding("ack", "nextFrameMutex", "ackMutex")}
    /\ lastOp' = NoOp
    /\ UNCHANGED <<senderVars, queueVars, flagVars, effVars, packetsToSendMutex, dataVars,
                   netPending, estimatedLatency, destroyed, useAfterFree, trace,
                   accepted, nbBuffers, emitted>>

(***************************************************************************)
(* Core: the queue, the two workers and the callbacks, with up to           *)
(* CoreSubmits frames of two fragments.  A buffer handed to SendNewFrame is *)
(* one the application has not handed over before.  The retry timer of      *)
(* PopFromQueue expires as long as a further pass keeps the send counter of *)
(* the frame within CoreSends, and whenever the thread has to leave.  The   *)
(* network manager makes the send callback of a fragment, with the status   *)
(* SENT, before ARNETWORK_Manager_SendData returns.                         *)
(***************************************************************************)
\* the retry timer may expire
TickAllowed(err, maxSends) ==
    err = ETIMEDOUT =>
        \/ numbersOfFragmentsSentForCurrentFrame + nbPackets <= maxSends
        \/ threadsShouldStop = 1
        \/ numberOfWaitingFrames > 0 /\ FrameIsReady

NoSendCallbackOwed == \A i \in PacketIndices : netPending[i] = 0

CoreSendNewFrame ==
    /\ nbBuffers < CoreSubmits
    /\ \E size \in CoreSizes, flush \in {0, 1} :
          SendNewFrameQueued(nbBuffers + 1, size, flush)

CoreWake ==
    \E err \in {0, ETIMEDOUT} : TickAllowed(err, CoreSends) /\ DataWake(err)

CoreSendReturns == NoSendCallbackOwed /\ DataSendReturns

CoreNetworkCallback == dataPc = "netSend" /\ NetworkCallback(cnt, "SENT")

AckRead ==
    \E recvFrameNumber \in AckFrameNumbers, recvBits \in SUBSET AckBits :
        AckReadPacket(recvFrameNumber, recvBits) /\ lastOp' = NoOp

Next ==
    \/ CoreSendNewFrame
    \/ StopSender
    \/ Delete
    \/ DataLaunch
    \/ DataAllocFails
    \/ DataStart
    \/ DataLoop
    \/ CoreWake
    \/ DataNewFrame
    \/ DataFlag
    \/ CoreSendReturns
    \/ CoreNetworkCallback
    \/ AckLaunch
    \/ AckStart
    \/ AckEnd
    \/ AckRead
    \/ AckSetCbWasCalled
    \/ AckSignal

Spec == Init /\ [][Next]_vars

(***************************************************************************)
(* Flush: Core without StopSender, Delete and the failure of malloc, with  *)
(* up to FlushSubmits frames.                                              *)
(***************************************************************************)
FlushSendNewFrame ==
    /\ nbBuffers < FlushSubmits
    /\ \E size \in CoreSizes, flush \in {0, 1} :
          SendNewFrameQueued(nbBuffers + 1, size, flush)

NextFlush ==
    \/ FlushSendNewFrame
    \/ DataLaunch
    \/ DataStart
    \/ DataLoop
    \/ CoreWake
    \/ DataNewFrame
    \/ DataFlag
    \/ CoreSendReturns
    \/ CoreNetworkCallback
    \/ AckLaunch
    \/ AckStart
    \/ AckRead
    \/ AckSetCbWasCalled
    \/ AckSignal

SpecFlush == Init /\ [][NextFlush]_vars

(***************************************************************************)
(* Inputs: the arguments of every call of SendNewFrame, the refused ones   *)
(* included, and the content of every acknowledge packet read are kept in  *)
(* lastOp.  Frames of one and of two fragments, up to InputSubmits calls   *)
(* that reach AddToQueue, no StopSender, no Delete.                        *)
(***************************************************************************)
InputsSendNewFrame ==
    \E buffer \in {NULL, nbBuffers + 1}, size \in SubmitSizes, flush \in FlushArgs :
        \/ SendNewFrameRefused(buffer, size, flush)
        \/ nbBuffers < InputSubmits /\ SendNewFrameQueued(buffer, size, flush)

InputsAckRead ==
    \E recvFrameNumber \in AckFrameNumbers, recvBits \in SUBSET AckBits :
        /\ AckReadPacket(recvFrameNumber, recvBits)
        /\ lastOp' = [op |-> "AckRead", frameNumber |-> recvFrameNumber, bits |-> recvBits]

NextInputs ==
    \/ InputsSendNewFrame
    \/ DataLaunch
    \/ DataStart
    \/ DataLoop
    \/ CoreWake
    \/ DataNewFrame
    \/ DataFlag
    \/ CoreSendReturns
    \/ CoreNetworkCallback
    \/ AckLaunch
    \/ AckStart
    \/ InputsAckRead
    \/ AckSetCbWasCalled
    \/ AckSignal

SpecInputs == Init /\ [][NextInputs]_vars

(***************************************************************************)
(* Live: one sender, up to LiveSubmits frames, a peer that acknowledges    *)
(* only fragments it was sent.  Both workers, once launched, keep running: *)
(* every step of a worker that stays possible is taken, and the retry      *)
(* timer of PopFromQueue expires.  Nothing is assumed about the            *)
(* application or about the arrival of acknowledge packets.                *)
(***************************************************************************)
LiveSendNewFrame ==
    /\ nbBuffers < LiveSubmits
    /\ \E size \in CoreSizes, flush \in {0, 1} :
          SendNewFrameQueued(nbBuffers + 1, size, flush)

\* ARSAL_Cond_Timedwait returns ETIMEDOUT
CoreTick == TickAllowed(ETIMEDOUT, CoreSends) /\ DataWake(ETIMEDOUT)

\* the peer acknowledges fragments of a frame that were emitted
LiveAckRead ==
    \E recvFrameNumber \in 1 .. nextFrameNumber :
        \E recvBits \in SUBSET emitted[recvFrameNumber] :
            AckReadPacket(recvFrameNumber, recvBits) /\ lastOp' = NoOp

NextLive ==
    \/ LiveSendNewFrame
    \/ DataLaunch
    \/ DataStart
    \/ DataLoop
    \/ CoreWake
    \/ DataNewFrame
    \/ DataFlag
    \/ CoreSendReturns
    \/ CoreNetworkCallback
    \/ AckLaunch
    \/ AckStart
    \/ LiveAckRead
    \/ AckSetCbWasCalled
    \/ AckSignal

WorkersRun ==
    /\ WF_vars(DataStart)
    /\ WF_vars(DataLoop)
    /\ WF_vars(CoreTick)
    /\ WF_vars(DataNewFrame)
    /\ WF_vars(DataFlag)
    /\ WF_vars(CoreNetworkCallback)
    /\ WF_vars(CoreSendReturns)
    /\ WF_vars(AckStart)
    /\ WF_vars(AckSetCbWasCalled)
    /\ WF_vars(AckSignal)

SpecLive == Init /\ [][NextLive]_vars /\ WorkersRun

(***************************************************************************)
(* Stop: up to StopSubmits frames, StopSender and Delete, the ack thread   *)
(* with its position in the read.  Both workers, once launched, keep       *)
(* running, the timed wait of PopFromQueue and the read of the ack thread  *)
(* return.                                                                 *)
(***************************************************************************)
StopSendNewFrame ==
    /\ nbBuffers < StopSubmits
    /\ \E size \in CoreSizes, flush \in {0, 1} :
          SendNewFrameQueued(nbBuffers + 1, size, flush)

StopAckRead ==
    \E recvFrameNumber \in AckFrameNumbers, recvBits \in SUBSET AckBits :
        AckReadReturns(recvFrameNumber, recvBits) /\ lastOp' = NoOp

NextStop ==
    \/ StopSendNewFrame
    \/ StopSender
    \/ Delete
    \/ DataLaunch
    \/ DataAllocFails
    \/ DataStart
    \/ DataLoop
    \/ CoreWake
    \/ DataNewFrame
    \/ DataFlag
    \/ CoreSendReturns
    \/ CoreNetworkCallback
    \/ AckLaunch
    \/ AckStart
    \/ AckEnd
    \/ AckLoopTest
    \/ AckReadNothing
    \/ StopAckRead
    \/ AckSetCbWasCalled
    \/ AckSignal

WorkersRunToTheEnd ==
    /\ WorkersRun
    /\ WF_vars(DataAllocFails \/ DataStart)
    /\ WF_vars(AckEnd)
    /\ WF_vars(AckReadNothing)

SpecStop == Init /\ [][NextStop]_vars /\ WorkersRunToTheEnd

(***************************************************************************)
(* Net: frames of three fragments; the network manager makes the send      *)
(* callback of a fragment at any moment after ARNETWORK_Manager_SendData   *)
(* took it, on its own thread, with SENT or CANCEL.                        *)
(***************************************************************************)
NetSendNewFrame ==
    /\ nbBuffers < NetSubmits
    /\ \E size \in NetSizes, flush \in {0, 1} :
          SendNewFrameQueued(nbBuffers + 1, size, flush)

NetWake ==
    \E err \in {0, ETIMEDOUT} : TickAllowed(err, NetSends) /\ DataWake(err)

NetNetworkCallback ==
    \E packetIndex \in FragmentIndices, status \in {"SENT", "CANCEL"} :
        NetworkCallback(packetIndex, status)

NetAckRead ==
    \E recvFrameNumber \in 0 .. NetSubmits, recvBits \in SUBSET FragmentIndices :
        AckReadPacket(recvFrameNumber, recvBits) /\ lastOp' = NoOp

NextNet ==
    \/ NetSendNewFrame
    \/ DataLaunch
    \/ DataStart
    \/ DataLoop
    \/ NetWake
    \/ DataNewFrame
    \/ DataFlag
    \/ DataSendReturns
    \/ NetNetworkCallback
    \/ AckLaunch
    \/ AckStart
    \/ NetAckRead
    \/ AckSetCbWasCalled
    \/ AckSignal

SpecNet == Init /\ [][NextNet]_vars

(***************************************************************************)
(* Eff: an application that submits frames of three fragments, every one   *)
(* with flush and when no frame waits, and asks for the efficiency; the    *)
(* peer acknowledges frames up to EffAckedFrames, and a later frame is     *)
(* replaced before its first retry; send callbacks as in Core.             *)
(***************************************************************************)
EffSendNewFrame ==
    /\ nbBuffers < EffSubmits
    /\ numberOfWaitingFrames = 0
    /\ \E size \in NetSizes : SendNewFrameQueued(nbBuffers + 1, size, 1)

EffWake ==
    \E err \in {0, ETIMEDOUT} :
        /\ TickAllowed(err, IF currentFrame.frameNumber <= EffAckedFrames
                            THEN EffSends ELSE 0)
        /\ DataWake(err)

EffAckRead ==
    \E recvFrameNumber \in 1 .. EffAckedFrames, recvBits \in SUBSET FragmentIndices :
        AckReadPacket(recvFrameNumber, recvBits) /\ lastOp' = NoOp

NextEff ==
    \/ EffSendNewFrame
    \/ GetEstimatedEfficiency
    \/ DataLaunch
    \/ DataStart
    \/ DataLoop
    \/ EffWake
    \/ DataNewFrame
    \/ DataFlag
    \/ CoreSendReturns
    \/ CoreNetworkCallback
    \/ AckLaunch
    \/ AckStart
    \/ EffAckRead
    \/ AckSetCbWasCalled
    \/ AckSignal

SpecEff == Init /\ [][NextEff]_vars

(***************************************************************************)
(* Sizes: one call of SendNewFrame, with flush and a size of               *)
(* FragmentLawSizes, and the data thread, which makes one pass over the    *)
(* frame; send callbacks as in Core.                                       *)
(***************************************************************************)
SizesSendNewFrame ==
    /\ nbBuffers = 0
    /\ lastOp = NoOp
    /\ \E size \in FragmentLawSizes :
          \/ SendNewFrameRefused(1, size, 1)
          \/ SendNewFrameQueued(1, size, 1)

SizesWake ==
    \E err \in {0, ETIMEDOUT} : TickAllowed(err, 0) /\ DataWake(err)

NextSizes ==
    \/ SizesSendNewFrame
    \/ DataLaunch
    \/ DataStart
    \/ DataLoop
    \/ SizesWake
    \/ DataNewFrame
    \/ DataFlag
    \/ CoreSendReturns
    \/ CoreNetworkCallback

SpecSizes == Init /\ [][NextSizes]_vars

(***************************************************************************)
(* Locks: all the threads of Net, and an application thread that asks for  *)
(* the efficiency.  The workers and the network manager keep running: a    *)
(* step of theirs that stays possible is taken.                            *)
(***************************************************************************)
NextLocks ==
    \/ NetSendNewFrame
    \/ GetEstimatedEfficiency
    \/ DataLaunch
    \/ DataStart
    \/ DataLoop
    \/ NetWake
    \/ DataNewFrame
    \/ DataFlag
    \/ DataSendReturns
    \/ NetNetworkCallback
    \/ AckLaunch
    \/ AckStart
    \/ NetAckRead
    \/ AckSetCbWasCalled
    \/ AckSignal

ThreadsRun ==
    /\ WF_vars(DataStart)
    /\ WF_vars(DataLoop)
    /\ WF_vars(DataNewFrame)
    /\ WF_vars(DataFlag)
    /\ WF_vars(DataSendReturns)
    /\ WF_vars(NetNetworkCallback)
    /\ WF_vars(AckStart)
    /\ WF_vars(AckSetCbWasCalled)
    /\ WF_vars(AckSignal)

SpecLocks == Init /\ [][NextLocks]_vars /\ ThreadsRun

(***************************************************************************)
(* Wait: the dequeue with its clock.  The estimate of the latency changes  *)
(* at any moment; the timed wait ends after any number of ms up to its     *)
(* timeout; frames are submitted with and without flush while the data     *)
(* thread waits; no acknowledgement arrives.                               *)
(***************************************************************************)
WaitSendNewFrame ==
    /\ nbBuffers < WaitSubmits
    /\ \E size \in CoreSizes, flush \in {0, 1} :
          SendNewFrameQueued(nbBuffers + 1, size, flush)

\* the network manager has a new estimate
NetLatencyChanges ==
    /\ \E latency \in WaitLatencies \ {estimatedLatency} : estimatedLatency' = latency
    /\ lastOp' = NoOp
    /\ UNCHANGED <<senderVars, queueVars, flagVars, effVars, lockVars, dataVars, ackPc,
                   netPending, destroyed, useAfterFree, histVars>>

WaitWake ==
    \E outcome \in TimedwaitOutcomes(waitTime - timewaited) :
        /\ TickAllowed(outcome[1], WaitSends)
        /\ DataWaitReturns(outcome[1], outcome[2])

NextWait ==
    \/ WaitSendNewFrame
    \/ NetLatencyChanges
    \/ DataLaunch
    \/ DataStart
    \/ DataLoop
    \/ WaitWake
    \/ DataNewFrame
    \/ DataFlag
    \/ CoreSendReturns
    \/ CoreNetworkCallback

SpecWait == Init /\ [][NextWait]_vars

(***************************************************************************)
(* What the application observes of a frame.                               *)
(***************************************************************************)
IsCallback(e) == e.status \in {"FRAME_SENT", "FRAME_CANCEL"}

\* positions in the trace of the callbacks made with this buffer
CallbacksOf(buffer) == {i \in DOMAIN trace : IsCallback(trace[i]) /\ trace[i].buffer = buffer}

\* frames are named by their frame number, 1 .. Len(accepted)
BufferOf(f) == accepted[f].buffer
Reported(f) == CallbacksOf(BufferOf(f)) # {}
CallbackAt(f) == CHOOSE i \in CallbacksOf(BufferOf(f)) : \A j \in CallbacksOf(BufferOf(f)) : i <= j

\* the callback at position i is the cancel of the replaced current frame by
\* the data thread, which follows the flush of the network buffer; the other
\* FRAME_CANCEL callbacks are those of FlushQueue
DataCancelAt(i) ==
    /\ trace[i].status = "FRAME_CANCEL"
    /\ i > 1
    /\ trace[i - 1].status = "NETFLUSH"
QueueCancelAt(i) == trace[i].status = "FRAME_CANCEL" /\ ~DataCancelAt(i)

IsWaiting(f) == \E k \in DOMAIN WaitingFrames : WaitingFrames[k].frameNumber = f
\* out of the queue and without callback: held by the data thread or current
IsHeld(f) == dataPc = "newFrame" /\ nextFrame.frameNumber = f
IsCurrentUnreported(f) == currentFrame.frameNumber = f /\ currentFrameCbWasCalled = 0

BothWorkersExited == threadsShouldStop = 1 /\ dataPc = "exited" /\ ackPc = "exited"

(***************************************************************************)
(* C1                                                                      *)
(***************************************************************************)
\* C1: the application callback is made at most once (FRAME_SENT or
\* FRAME_CANCEL, never both, never twice) with a frame SendNewFrame accepted.
C1_NoDuplicateCallback ==
    \A f \in DOMAIN accepted : Cardinality(CallbacksOf(BufferOf(f))) <= 1

\* the three places that make a callback have each reported a frame, and the
\* ack thread is reading packets for a frame already reported as sent
C1_Witness ==
    /\ \E a, b, c \in DOMAIN accepted :
          /\ Reported(a) /\ DataCancelAt(CallbackAt(a))
          /\ Reported(b) /\ QueueCancelAt(CallbackAt(b))
          /\ Reported(c) /\ trace[CallbackAt(c)].status = "FRAME_SENT"
          /\ currentFrame.frameNumber = c
    /\ currentFrameCbWasCalled = 1
    /\ ackPc = "loop"
    /\ AckPacketAllFlagsSet(ackPacket.bits, currentFrameNbFragments)

(***************************************************************************)
(* C2                                                                      *)
(***************************************************************************)
\* C2 as stated: once StopSender took effect and both workers have exited,
\* every accepted frame has been reported to the application.
C2_AllReportedAtShutdown ==
    BothWorkersExited => \A f \in DOMAIN accepted : Reported(f)

\* C2: once StopSender took effect and both workers have exited, the accepted
\* frames without callback are exactly the frames still waiting in the queue
\* and the current frame when it was not acknowledged; every other accepted
\* frame was reported once.
C2_UnreportedAtShutdown ==
    BothWorkersExited =>
        \A f \in DOMAIN accepted :
            Cardinality(CallbacksOf(BufferOf(f))) =
                IF IsWaiting(f) \/ IsCurrentUnreported(f) THEN 0 ELSE 1

\* shutdown with a reported frame, an unacknowledged current frame and a
\* frame left in the queue
C2_Witness ==
    /\ BothWorkersExited
    /\ \E a, b, c \in DOMAIN accepted :
          Reported(a) /\ IsCurrentUnreported(b) /\ IsWaiting(c) /\ ~Reported(b) /\ ~Reported(c)

(***************************************************************************)
(* C3                                                                      *)
(***************************************************************************)
\* C3 as stated: the callback of frame N is made before the callback of
\* frame N+1.
C3_SubmissionOrder ==
    \A f, g \in DOMAIN accepted :
        g = f + 1 /\ Reported(f) /\ Reported(g) => CallbackAt(f) < CallbackAt(g)

\* C3: callbacks follow the submission order, except that FlushQueue cancels
\* the waiting frames while an earlier frame, already taken out of the queue
\* by the data thread, is still without callback; the callback of that
\* earlier frame, made by a worker, comes later.
C3_OrderUpToQueueFlush ==
    \A f, g \in DOMAIN accepted :
        f < g /\ Reported(g) =>
            IF Reported(f)
            THEN \/ CallbackAt(f) < CallbackAt(g)
                 \/ QueueCancelAt(CallbackAt(g)) /\ ~QueueCancelAt(CallbackAt(f))
            ELSE QueueCancelAt(CallbackAt(g)) /\ (IsHeld(f) \/ IsCurrentUnreported(f))

\* a frame cancelled in the queue before the callback of an earlier frame
C3_Witness ==
    \E f, g \in DOMAIN accepted :
        /\ f < g /\ Reported(f) /\ Reported(g)
        /\ CallbackAt(g) < CallbackAt(f)
        /\ DataCancelAt(CallbackAt(f))

(***************************************************************************)
(* C4                                                                      *)
(***************************************************************************)
\* frame 1 was submitted without flush to a sender whose workers both run
\* and on which no frame was dequeued and no callback made so far
FreshSenderHoldsFrame1 ==
    /\ dataThreadStarted = 1
    /\ ackThreadStarted = 1
    /\ threadsShouldStop = 0
    /\ Len(accepted) >= 1
    /\ accepted[1].flush = 0
    /\ currentFrame = NoFrame
    /\ trace = <<>>

\* every fragment of frame 1 was handed to the network
Frame1Emitted ==
    /\ currentFrame.frameNumber = 1
    /\ emitted[1] = 0 .. (currentFrameNbFragments - 1)

\* C4 as stated: on a fresh sender with both workers running, a frame
\* submitted without flush is eventually dequeued and all its fragments are
\* emitted (unless a later flush-flagged submit cancels it in the queue).
C4_EventuallyEmitted == FreshSenderHoldsFrame1 ~> (Frame1Emitted \/ Reported(1))

(***************************************************************************)
(* C5                                                                      *)
(***************************************************************************)
\* C5: a flush-flagged SendNewFrame is accepted and has made FRAME_CANCEL
\* for every frame that was waiting, oldest first, when it returns; the
\* queue then holds the new high-priority frame alone (count 1, get index one
\* slot behind add index).  No fragment of a flush frame is emitted before
\* every earlier frame was reported.
C5_FlushCancelsQueue ==
    /\ (lastOp.op = "SendNewFrame" /\ lastOp.flush = 1
            /\ lastOp.ret \in {"OK", "QUEUE_FULL"}) =>
          LET k == Len(lastOp.ahead)
              n == Len(trace)
          IN /\ lastOp.ret = "OK"
             /\ n >= k
             /\ \A i \in 1 .. k :
                   /\ trace[n - k + i].status = "FRAME_CANCEL"
                   /\ trace[n - k + i].buffer = lastOp.ahead[i]
             /\ numberOfWaitingFrames = 1
             /\ (indexGetNextFrame + 1) % maxNumberOfNextFrames = indexAddNextFrame
             /\ Slot(indexGetNextFrame) =
                   [frameNumber |-> nextFrameNumber, frameSize |-> lastOp.size,
                    frameBuffer |-> lastOp.buffer, isHighPriority |-> 1]
             /\ emitted[nextFrameNumber] = {}
    /\ \A f \in DOMAIN accepted :
          accepted[f].flush = 1 /\ emitted[f] # {} => \A g \in 1 .. (f - 1) : Reported(g)

\* a flush-flagged submit has just cancelled two waiting frames
C5_Witness ==
    /\ lastOp.op = "SendNewFrame"
    /\ lastOp.flush = 1
    /\ lastOp.ret = "OK"
    /\ Len(lastOp.ahead) = 2
    /\ Len(trace) >= 2

(***************************************************************************)
(* C6                                                                      *)
(***************************************************************************)
InstalledAt(f) == {p \in DOMAIN trace : trace[p] = [status |-> "INSTALL",
                                                     buffer |-> accepted[f].buffer,
                                                     size |-> accepted[f].size]}

\* frame a was current and without callback when the data thread dequeued
\* the flush frame d: the cancel of a is the entry before the install of d
PreemptedBy(a, d) ==
    /\ a < d
    /\ accepted[d].flush = 1
    /\ InstalledAt(a) # {}
    /\ Reported(a)
    /\ trace[CallbackAt(a)].status = "FRAME_CANCEL"
    /\ (CallbackAt(a) + 1) \in InstalledAt(d)

\* C6: when the data thread dequeues flush frame D while frame A is current
\* and without callback, the frames submitted between A and D have had their
\* FRAME_CANCEL, in order, before; then the network buffer is flushed, then
\* A is cancelled, once; fragments of D are emitted only after all that.
C6_FlushPreemption ==
    /\ \A a, d \in DOMAIN accepted :
          PreemptedBy(a, d) =>
              LET c == CallbackAt(a)
              IN /\ c > 1
                 /\ trace[c - 1].status = "NETFLUSH"
                 /\ Cardinality(CallbacksOf(BufferOf(a))) = 1
                 /\ \A b \in (a + 1) .. (d - 1) :
                       /\ Reported(b)
                       /\ trace[CallbackAt(b)].status = "FRAME_CANCEL"
                       /\ CallbackAt(b) < c - 1
                       /\ Cardinality(CallbacksOf(BufferOf(b))) = 1
                       /\ \A b2 \in (b + 1) .. (d - 1) :
                             Reported(b2) => CallbackAt(b) < CallbackAt(b2)
    /\ \A d \in DOMAIN accepted : emitted[d] # {} => InstalledAt(d) # {}

\* frames A, B, C, D: B and C cancelled in the queue by the submit of D, A
\* cancelled when D was dequeued, D emitted
C6_Witness ==
    \E a \in DOMAIN accepted :
        /\ (a + 3) \in DOMAIN accepted
        /\ PreemptedBy(a, a + 3)
        /\ Reported(a + 1) /\ Reported(a + 2)
        /\ CallbackAt(a + 2) = CallbackAt(a + 1) + 1
        /\ CallbackAt(a + 2) < CallbackAt(a)
        /\ emitted[a + 3] = 0 .. (currentFrameNbFragments - 1)
        /\ currentFrame.frameNumber = a + 3

(***************************************************************************)
(* C7                                                                      *)
(***************************************************************************)
\* C7 as stated: an acknowledge packet whose frame number is not that of the
\* current frame leaves ackPacket and currentFrameCbWasCalled unchanged and
\* triggers no callback.
C7_StaleAckDiscarded ==
    [][(lastOp'.op = "AckRead"
            /\ lastOp'.frameNumber # ToAckFrameNumber(currentFrame.frameNumber))
        => /\ ackPacket' = ackPacket
           /\ currentFrameCbWasCalled' = currentFrameCbWasCalled
           /\ trace' = trace
           /\ ackPc' = "loop"]_vars

(***************************************************************************)
(* C8                                                                      *)
(***************************************************************************)
AcceptedBuffers == {accepted[f].buffer : f \in DOMAIN accepted}

\* C8: a call that reaches AddToQueue returns QUEUE_FULL exactly when, after
\* the optional flush, the queue holds maxNumberOfNextFrames frames; the
\* call then leaves nextFrameNumber, both indices, the count and the slots
\* unchanged, writes nothing to *nbPreviousFrames and signals nothing; no
\* callback is ever made with a rejected buffer.
C8_QueueFullRejects ==
    [][/\ (lastOp'.op = "SendNewFrame" /\ nbBuffers' = nbBuffers + 1) =>
             LET countAfterFlush == IF lastOp'.flush = 1 THEN 0 ELSE numberOfWaitingFrames
             IN /\ (lastOp'.ret = "QUEUE_FULL") <=> (countAfterFlush = maxNumberOfNextFrames)
                /\ lastOp'.ret = "QUEUE_FULL" =>
                      /\ UNCHANGED <<queueVars, condSignalled, trace, accepted>>
                      /\ ~lastOp'.prevWritten
       /\ \A b \in 1 .. nbBuffers' :
             b \notin AcceptedBuffers' => CallbacksOf(b)' = {}]_vars

\* the third of three submits to a queue of two slots was rejected
C8_Witness ==
    /\ lastOp.op = "SendNewFrame"
    /\ lastOp.ret = "QUEUE_FULL"
    /\ nbBuffers = maxNumberOfNextFrames + 1
    /\ numberOfWaitingFrames = maxNumberOfNextFrames
    /\ CallbacksOf(lastOp.buffer) = {}

(***************************************************************************)
(* C9                                                                      *)
(***************************************************************************)
\* C9: SendNewFrame returns BAD_PARAMETERS for a null buffer, a size of 0 or
\* a flush flag outside {0, 1}, and FRAME_TOO_LARGE for an otherwise valid
\* frame larger than ARSTREAM_NETWORK_HEADERS_MAX_FRAME_SIZE; both leave the
\* queue, nextFrameNumber and *nbPreviousFrames untouched, cancel no queued
\* frame and make no callback.
C9_RefusedCallsChangeNothing ==
    [][lastOp'.op = "SendNewFrame" =>
          LET bad == \/ lastOp'.buffer = NULL
                     \/ lastOp'.size = 0
                     \/ lastOp'.flush \notin {0, 1}
              big == lastOp'.size > ARSTREAM_NETWORK_HEADERS_MAX_FRAME_SIZE
          IN /\ (lastOp'.ret = "BAD_PARAMETERS") <=> bad
             /\ (lastOp'.ret = "FRAME_TOO_LARGE") <=> (~bad /\ big)
             /\ (bad \/ big) =>
                   /\ UNCHANGED <<senderVars, queueVars, flagVars, effVars, lockVars,
                                  dataVars, ackPc, netPending, estimatedLatency, histVars>>
                   /\ ~lastOp'.prevWritten]_vars

\* an oversized frame submitted with flush while two frames wait
C9_Witness ==
    /\ lastOp.op = "SendNewFrame"
    /\ lastOp.ret = "FRAME_TOO_LARGE"
    /\ lastOp.flush = 1
    /\ numberOfWaitingFrames = 2
    /\ trace = <<>>

(***************************************************************************)
(* C10                                                                     *)
(***************************************************************************)
\* C10 as stated: Delete frees the instance only when no worker that was
\* launched is still to exit, and no worker touches a freed instance.
C10_DeleteSafe ==
    /\ destroyed => dataPc \in {"idle", "exited"} /\ ackPc \in {"idle", "exited"}
    /\ ~useAfterFree

(***************************************************************************)
(* C11                                                                     *)
(***************************************************************************)
NoWorkerRuns == dataPc \in {"idle", "exited"} /\ ackPc \in {"idle", "exited"}

\* C11: after StopSender every launched worker ends; a while test made
\* after the flag was set ends the loop and clears the started flag, so at
\* most the turn whose test came before runs on; once no worker runs the
\* test of Delete passes.
C11_StopEndsWorkers ==
    /\ [][/\ ((threadsShouldStop = 1 /\ dataPc = "loop" /\ dataPc' # "loop")
                  => (dataPc' = "exited" /\ dataThreadStarted' = 0))
           /\ ((threadsShouldStop = 1 /\ ackPc = "loop" /\ ackPc' # "loop")
                  => (ackPc' = "exited" /\ ackThreadStarted' = 0))]_vars
    /\ [](NoWorkerRuns => CanDelete)
    /\ ((threadsShouldStop = 1) ~> NoWorkerRuns)

\* both workers ran, were stopped while a frame was current, and Delete
\* freed the instance
C11_Witness ==
    /\ threadsShouldStop = 1
    /\ dataPc = "exited"
    /\ ackPc = "exited"
    /\ currentFrame.frameNumber >= 1
    /\ destroyed
    /\ ~useAfterFree

(***************************************************************************)
(* C12                                                                     *)
(***************************************************************************)
InstallOf(f) == CHOOSE p \in InstalledAt(f) : TRUE

\* C12: the frame numbers of the successive current frames increase
\* strictly; a frame is installed once, and when it is installed every frame
\* accepted before it was installed before or cancelled by FlushQueue before.
C12_FifoInstall ==
    /\ [][currentFrame'.frameNumber # currentFrame.frameNumber
            => currentFrame'.frameNumber > currentFrame.frameNumber]_vars
    /\ [](\A f \in DOMAIN accepted :
             InstalledAt(f) # {} =>
                 /\ Cardinality(InstalledAt(f)) = 1
                 /\ \A e \in 1 .. (f - 1) :
                       \/ \E p \in InstalledAt(e) : p < InstallOf(f)
                       \/ \E i \in CallbacksOf(BufferOf(e)) :
                             QueueCancelAt(i) /\ i < InstallOf(f))

\* four frames: 1 installed, 2 cancelled in the queue by the flush submit of
\* 3, 3 and 4 installed
C12_Witness ==
    /\ Len(accepted) = 4
    /\ InstalledAt(1) # {}
    /\ InstalledAt(2) = {}
    /\ \E i \in CallbacksOf(BufferOf(2)) : QueueCancelAt(i)
    /\ InstalledAt(3) # {}
    /\ InstalledAt(4) # {}
    /\ currentFrame.frameNumber = 4

(***************************************************************************)
(* C13                                                                     *)
(***************************************************************************)
\* the fragments of the current frame without acknowledge
Unacked == {k \in 0 .. (nbPackets - 1) : k \notin ackPacket.bits}

\* the data thread makes a step of the retransmit pass: it starts the pass,
\* or comes back from ARNETWORK_Manager_SendData
PassStep ==
    \/ dataPc = "lockSend" /\ dataPc' # "lockSend"
    \/ dataPc = "netSend" /\ (dataPc' # "netSend" \/ cnt' # cnt)

\* the last fragment the pass handed to the network, -1 at its start
PassAt == IF dataPc = "lockSend" THEN -1 ELSE cnt

\* the step hands the least fragment of rest to the network and counts it,
\* or ends the pass when rest is empty
PassEmitsNextOf(rest) ==
    IF rest = {}
    THEN /\ dataPc' = "loop"
         /\ numbersOfFragmentsSentForCurrentFrame' = numbersOfFragmentsSentForCurrentFrame
    ELSE /\ dataPc' = "netSend"
         /\ cnt' \in rest
         /\ \A k \in rest : cnt' <= k
         /\ numbersOfFragmentsSentForCurrentFrame' =
                numbersOfFragmentsSentForCurrentFrame + 1

\* C13 as stated: a pass hands to the network exactly the fragments without
\* acknowledge at its start, in increasing order, each once and counted
\* once; the acknowledge bitmap does not change during the pass.
C13_PassEmitsUnacked ==
    [][/\ PassStep => PassEmitsNextOf({k \in Unacked : k > PassAt})
       /\ dataPc = "netSend" => ackPacket' = ackPacket]_vars

\* C13, amended: a pass hands to the network, in increasing order, each once
\* and counted once, the fragments without acknowledge at its start whose
\* flag in packetsToSend no send callback has cleared when the loop reaches
\* them; the acknowledge bitmap does not change during the pass.
C13_PassEmitsUnackedStillFlagged ==
    [][/\ PassStep =>
              PassEmitsNextOf({k \in Unacked :
                                  /\ k > PassAt
                                  /\ (dataPc = "netSend" => k \in packetsToSend.bits)})
       /\ dataPc = "netSend" => ackPacket' = ackPacket]_vars

\* frame 1 of three fragments, fragment 1 acknowledged after the first pass:
\* the second pass handed fragments 0 and 2 to the network, the counter is 5
C13_Witness ==
    /\ currentFrame.frameNumber = 1
    /\ nbPackets = 3
    /\ ackPacket.bits = {1}
    /\ dataPc = "loop"
    /\ cnt = 3
    /\ numbersOfFragmentsSentForCurrentFrame = 5
    /\ NoSendCallbackOwed

(***************************************************************************)
(* C14                                                                     *)
(***************************************************************************)
RingSlots == 1 .. ARSTREAM_SENDER_EFFICIENCY_AVERAGE_NB_FRAMES
NextEfficiencyIndex == (efficiency_index + 1) % ARSTREAM_SENDER_EFFICIENCY_AVERAGE_NB_FRAMES
EfficiencyAsked == lastOp.op = "GetEstimatedEfficiency"

C14_RingWrapped ==
    /\ EfficiencyAsked
    /\ currentFrame.frameNumber = 16
    /\ efficiency_index = 1
    /\ lastOp.totalPackets = 14 * 3

(***************************************************************************)
(* C15                                                                     *)
(***************************************************************************)
\* C15: the ring never holds more fragments than sends.
C15_RingFragmentsAtMostSends ==
    SumUpTo(efficiency_nbFragments, ARSTREAM_SENDER_EFFICIENCY_AVERAGE_NB_FRAMES)
        <= SumUpTo(efficiency_nbSent, ARSTREAM_SENDER_EFFICIENCY_AVERAGE_NB_FRAMES)

(***************************************************************************)
(* C16                                                                     *)
(***************************************************************************)
\* C16: the value an accepted SendNewFrame writes to *nbPreviousFrames is
\* the number of frames accepted before that had no callback yet when the
\* call began.
C16_PrevCountsPending ==
    [][Len(accepted') = Len(accepted) + 1
          => /\ lastOp'.prevWritten
             /\ lastOp'.prev = Cardinality({f \in DOMAIN accepted : ~Reported(f)})]_vars

(***************************************************************************)
(* C17                                                                     *)
(***************************************************************************)
\* a step of StopSender, of the end of a worker or of Delete
ShutdownStep ==
    \/ threadsShouldStop' # threadsShouldStop
    \/ dataPc # "exited" /\ dataPc' = "exited"
    \/ ackPc # "exited" /\ ackPc' = "exited"
    \/ destroyed' # destroyed

\* C17: StopSender, the end of either worker and Delete make no callback;
\* the frames waiting in the queue when both workers have ended have had no
\* callback.
C17_ShutdownMakesNoCallback ==
    /\ [][ShutdownStep => trace' = trace]_vars
    /\ [](BothWorkersExited =>
            \A f \in DOMAIN accepted : IsWaiting(f) => ~Reported(f))

\* frame 1 is current, frame 2 waits; both workers have ended and Delete
\* has freed the instance: no callback for frame 2
C17_Witness ==
    /\ BothWorkersExited
    /\ destroyed
    /\ ~useAfterFree
    /\ currentFrame.frameNumber = 1
    /\ IsWaiting(2)
    /\ ~Reported(2)

(***************************************************************************)
(* C18                                                                     *)
(***************************************************************************)
\* PopFromQueue gives a frame to the data thread
PopStep == dataPc # "newFrame" /\ dataPc' = "newFrame"
\* the data thread makes the frame it holds the current frame
InstallStep == currentFrame'.frameNumber # currentFrame.frameNumber
\* the callbacks the step adds to the log
NewEntries == SubSeq(trace', Len(trace) + 1, Len(trace'))

\* C18: PopFromQueue gives the head only if it is high priority or the
\* current frame had its callback; a frame submitted without flush is
\* installed only over a frame that had its callback, and the data thread
\* cancels the current frame only when the frame it installs was submitted
\* with flush.
C18_DequeueGate ==
    [][/\ PopStep =>
             /\ nextFrame' = Slot(indexGetNextFrame)
             /\ \/ Slot(indexGetNextFrame).isHighPriority = 1
                \/ currentFrameCbWasCalled = 1
       /\ (InstallStep /\ nextFrame.isHighPriority # 1) =>
             /\ currentFrameCbWasCalled = 1
             /\ currentFrame.frameNumber >= 1 => Reported(currentFrame.frameNumber)
             /\ NewEntries = <<Install(nextFrame)>>
       /\ (\E i \in DOMAIN NewEntries : NewEntries[i].status = "NETFLUSH") =>
             /\ InstallStep
             /\ nextFrame.isHighPriority = 1
             /\ accepted[nextFrame.frameNumber].flush = 1]_vars

\* frame 1 was cancelled by the data thread when flush frame 2 was
\* installed; frame 2 had FRAME_SENT; frame 3, submitted without flush, is
\* the current frame
C18_Witness ==
    /\ Len(accepted) = 3
    /\ accepted[2].flush = 1
    /\ accepted[3].flush = 0
    /\ Reported(1)
    /\ DataCancelAt(CallbackAt(1))
    /\ Reported(2)
    /\ trace[CallbackAt(2)].status = "FRAME_SENT"
    /\ currentFrame.frameNumber = 3

(***************************************************************************)
(* C19                                                                     *)
(***************************************************************************)
\* the order in which the mutexes are to be locked
LockRank(mutex) ==
    CASE mutex = "packetsToSendMutex" -> 1
      [] mutex = "ackMutex" -> 2
      [] mutex = "nextFrameMutex" -> 3

\* C19: no thread locks packetsToSendMutex while it holds ackMutex or
\* nextFrameMutex, nor ackMutex while it holds nextFrameMutex.
C19_LockOrder == \A e \in nested : LockRank(e.holding) < LockRank(e.mutex)

(***************************************************************************)
(* C20                                                                     *)
(***************************************************************************)
\* the data thread is blocked in ARSAL_Cond_Timedwait while a frame waits
\* and the current frame had its callback
BlockedWithReadyHead ==
    /\ dataPc = "wait"
    /\ numberOfWaitingFrames > 0
    /\ currentFrameCbWasCalled = 1

\* C20 as stated: the data thread is never blocked on the condition with a
\* frame waiting, the flag set and no signal pending.
C20_NoBlockedWithoutSignal == BlockedWithReadyHead => condSignalled

\* C20, amended: when the data thread is blocked on the condition with a
\* frame waiting and the flag set, a signal is pending or the ack thread is
\* in FrameWasAck between the write of the flag and the signal; and when
\* the data thread tests the head, at the entry of PopFromQueue or after a
\* wake-up, with a frame waiting and the flag set, it takes the frame.
C20_NoLostWakeup ==
    /\ [](BlockedWithReadyHead => (condSignalled \/ ackPc = "signal"))
    /\ [][(/\ dataPc \in {"loop", "wait"}
           /\ dataPc' # dataPc
           /\ threadsShouldStop = 0 \/ dataPc = "wait"
           /\ numberOfWaitingFrames > 0
           /\ currentFrameCbWasCalled = 1)
              => /\ dataPc' = "newFrame"
                 /\ nextFrame' = Slot(indexGetNextFrame)]_vars

\* frame 1 had FRAME_SENT while frame 2, submitted without flush, waited
\* and the data thread was blocked: the signal of FrameWasAck is pending
C20_Witness ==
    /\ BlockedWithReadyHead
    /\ condSignalled
    /\ ackPc = "loop"
    /\ currentFrame.frameNumber = 1
    /\ trace[Len(trace)] = Cb("FRAME_SENT", currentFrame)
    /\ Slot(indexGetNextFrame).isHighPriority = 0

(***************************************************************************)
(* C21                                                                     *)
(***************************************************************************)
\* C21: while the current frame stays, the bits of ackPacket are only added
\* to and its frame number stays; the install of a frame leaves ackPacket
\* empty with the number of the new frame; merging a bitmap twice gives
\* what merging it once gives.
C21_AckBitsOnlyGrow ==
    /\ [][IF InstallStep
          THEN ackPacket' = [frameNumber |-> ToAckFrameNumber(currentFrame'.frameNumber),
                             bits |-> {}]
          ELSE /\ ackPacket.bits \subseteq ackPacket'.bits
               /\ ackPacket'.frameNumber = ackPacket.frameNumber]_vars
    /\ [](\A recvBits \in SUBSET AckBits :
            LET once == AckPacketSetFlags(ackPacket.bits, recvBits)
            IN AckPacketSetFlags(once, recvBits) = once)

\* frame 1 was acknowledged in full and replaced by frame 2, of which
\* fragment 1 alone is acknowledged
C21_Witness ==
    /\ currentFrame.frameNumber = 2
    /\ ackPacket = [frameNumber |-> 2, bits |-> {1}]
    /\ \E i \in DOMAIN trace : trace[i] = [status |-> "FRAME_SENT", buffer |-> BufferOf(1),
                                            size |-> accepted[1].size]

(***************************************************************************)
(* C22                                                                     *)
(***************************************************************************)
RECURSIVE SumOfFragmentSizes(_, _)
\* CurrFragmentSize(lo) + ... + CurrFragmentSize(hi - 1), by halves
SumOfFragmentSizes(lo, hi) ==
    IF hi <= lo THEN 0
    ELSE IF hi = lo + 1 THEN CurrFragmentSize(lo)
    ELSE LET mid == (lo + hi) \div 2
         IN SumOfFragmentSizes(lo, mid) + SumOfFragmentSizes(mid, hi)

\* C22: for the accepted frame of size S the data thread uses the least
\* number of fragments of FRAGMENT_SIZE bytes that hold S bytes, at most
\* 128; fragment c starts at byte c * FRAGMENT_SIZE, every fragment but the
\* last has FRAGMENT_SIZE bytes, the last has the rest, and the sizes of a
\* pass add up to S; a size above MAX_FRAME_SIZE is refused.
C22_FragmentLaw ==
    /\ currentFrame.frameNumber >= 1 =>
          LET S == currentFrame.frameSize
              F == ARSTREAM_NETWORK_HEADERS_FRAGMENT_SIZE
          IN /\ S > 0 /\ S <= ARSTREAM_NETWORK_HEADERS_MAX_FRAME_SIZE
             /\ nbPackets = currentFrameNbFragments
             /\ (nbPackets - 1) * F < S /\ S <= nbPackets * F
             /\ nbPackets <= ARSTREAM_NETWORK_HEADERS_MAX_FRAGMENTS_PER_FRAME
             /\ \A c \in 0 .. (nbPackets - 1) :
                   /\ FragmentOffset(c) = c * F
                   /\ CurrFragmentSize(c) =
                         IF c < nbPackets - 1 THEN F ELSE S - (nbPackets - 1) * F
                   /\ CurrFragmentSize(c) >= 1
                   /\ FragmentOffset(c) + CurrFragmentSize(c) <= S
             /\ (S % F = 0) => lastFragmentSize = F
             /\ SumOfFragmentSizes(0, nbPackets) = S
             /\ emitted[1] \subseteq 0 .. (nbPackets - 1)
             /\ dataPc = "loop" => emitted[1] = 0 .. (nbPackets - 1)
    /\ (lastOp.op = "SendNewFrame"
          /\ lastOp.size > ARSTREAM_NETWORK_HEADERS_MAX_FRAME_SIZE)
        => lastOp.ret = "FRAME_TOO_LARGE" /\ accepted = <<>>

\* the last fragment of the largest frame is handed to the network
C22_Witness ==
    /\ currentFrame.frameSize = ARSTREAM_NETWORK_HEADERS_MAX_FRAME_SIZE
    /\ nbPackets = ARSTREAM_NETWORK_HEADERS_MAX_FRAGMENTS_PER_FRAME
    /\ dataPc = "netSend"
    /\ cnt = nbPackets - 1
    /\ CurrFragmentSize(cnt) = ARSTREAM_NETWORK_HEADERS_FRAGMENT_SIZE

(***************************************************************************)
(* C23                                                                     *)
(***************************************************************************)
MinOf(a, b) == IF a < b THEN a ELSE b
MaxOf(a, b) == IF a > b THEN a ELSE b
\* the wait budget stated for an estimate L of the latency
RetryBudgetMs(L) == MinOf(50, MaxOf(15, (IF L < 0 THEN 100 ELSE L) + 5))

\* the data thread is in the timed wait of the dequeue and no frame is ready
WaitsWithoutReadyFrame ==
    /\ dataPc = "wait"
    /\ ~(numberOfWaitingFrames > 0 /\ FrameIsReady)

\* C23: the dequeue that finds no frame ready waits with a budget of
\* min(50, max(15, L + 5)) ms, L the estimate of the latency, 100 when the
\* estimate is negative, which gives 50; it returns false only on a wake-up
\* that reports the timeout, with no frame ready and the whole budget
\* waited; a wake-up that leaves no frame ready keeps the budget, adds the
\* time waited and waits for the rest only.
C23_RetryCadence ==
    /\ [][/\ ((dataPc = "loop" /\ dataPc' = "wait")
               => /\ waitTime' = RetryBudgetMs(estimatedLatency)
                  /\ (estimatedLatency < 0 => waitTime' = 50)
                  /\ timewaited' = 0
                  /\ hadTimeout' = 0)
           /\ ((dataPc = "loop") => (dataPc' # "lockSend"))
           /\ ((dataPc = "wait" /\ dataPc' = "lockSend")
               => /\ WaitsWithoutReadyFrame
                  /\ hadTimeout' = 1
                  /\ timewaited' = waitTime
                  /\ waitTime' = waitTime)
           /\ ((dataPc = "wait" /\ dataPc' = "wait")
               => /\ waitTime' = waitTime
                  /\ timewaited' >= timewaited
                  /\ timewaited' <= waitTime
                  /\ hadTimeout' = 0)]_vars
    /\ [](dataPc = "wait" =>
            /\ waitTime \in 15 .. 50
            /\ timewaited \in 0 .. waitTime
            /\ \A outcome \in TimedwaitOutcomes(waitTime - timewaited) :
                  timewaited + outcome[2] <= waitTime)

\* the dequeue has returned false: with an unknown latency, after 50 ms in
\* all, with frame 2, submitted without flush behind the unacknowledged
\* frame 1, in the queue
C23_Witness ==
    /\ dataPc = "lockSend"
    /\ hadTimeout = 1
    /\ estimatedLatency = -1
    /\ timewaited = 50
    /\ waitTime = 50
    /\ currentFrame.frameNumber = 1
    /\ currentFrameCbWasCalled = 0
    /\ numberOfWaitingFrames = 1
    /\ Slot(indexGetNextFrame).isHighPriority = 0

\* a wake-up by that submit, part of the budget waited, the wait goes on
C23_WokenWithoutReadyFrame ==
    /\ WaitsWithoutReadyFrame
    /\ timewaited \in 1 .. (waitTime - 1)
    /\ currentFrame.frameNumber = 1
    /\ numberOfWaitingFrames = 1

(***************************************************************************)
(* C24                                                                     *)
(***************************************************************************)
\* C24 as stated: every call of the application callback carries the buffer
\* and the size of a frame SendNewFrame accepted; none is made for the empty
\* initial current frame (NULL buffer, size 0).
C24_CallbacksCarryAcceptedFrames ==
    \A i \in DOMAIN trace :
        IsCallback(trace[i]) =>
            /\ \E f \in DOMAIN accepted :
                  /\ trace[i].buffer = accepted[f].buffer
                  /\ trace[i].size = accepted[f].size
            /\ trace[i].buffer # NULL
            /\ trace[i].size # 0

\* the same, for the callbacks the ack thread makes
C24_AckCallbacksCarryAcceptedFrames ==
    \A i \in DOMAIN trace :
        trace[i].status = "FRAME_SENT" =>
            \E f \in DOMAIN accepted : trace[i].buffer = accepted[f].buffer

\* the same, for the callbacks the data thread makes when it installs a frame
C24_CancelsCarryAcceptedFrames ==
    \A i \in DOMAIN trace :
        trace[i].status = "FRAME_CANCEL" =>
            \E f \in DOMAIN accepted : trace[i].buffer = accepted[f].buffer

(***************************************************************************)
(* C25                                                                     *)
(***************************************************************************)
\* the data thread is at a lock of ackMutex or packetsToSendMutex (683 and
\* 723, 752 and 753, 779) and the mutex is held
DataBlockedOnMutex ==
    \/ /\ dataPc \in {"newFrame", "lockSend"}
       /\ (ackMutex # "free" \/ packetsToSendMutex # "free")
    \/ /\ dataPc = "netSend"
       /\ packetsToSendMutex # "free"

\* the ack thread holds ackMutex and cannot go on
AckBlockedOnMutex ==
    /\ ackMutex = "ack"
    /\ ~ENABLED (AckSetCbWasCalled \/ AckSignal)

\* threads t1 # t2, each locking, while it holds a mutex, the mutex the
\* other holds when it locks; or three threads in a ring
WaitForCycle ==
    \/ \E a, b \in nested :
          /\ a.thread # b.thread
          /\ a.mutex = b.holding
          /\ b.mutex = a.holding
    \/ \E a, b, c \in nested :
          /\ a.thread # b.thread /\ b.thread # c.thread /\ a.thread # c.thread
          /\ a.mutex = b.holding
          /\ b.mutex = c.holding
          /\ c.mutex = a.holding

C25_DataHoldsAckMutex ==
    /\ dataPc = "netSend"
    /\ ackMutex = "data"
    /\ ackPc = "loop"

(***************************************************************************)
(* C26                                                                     *)
(***************************************************************************)
\* C26: between the sections under nextFrameMutex the number of waiting
\* frames is within 0 .. max, both indices are below max and the write
\* index is the read index plus the number of waiting frames, modulo max;
\* the slots that wait hold accepted frames that had no callback, oldest
\* first; a submit with flush leaves the queue with the new frame alone,
\* the read index where the write index was; a dequeue reads the slot of
\* an accepted frame that was neither cancelled nor dequeued before.
C26_RingInvariant ==
    /\ [](/\ numberOfWaitingFrames \in 0 .. maxNumberOfNextFrames
          /\ indexAddNextFrame \in 0 .. (maxNumberOfNextFrames - 1)
          /\ indexGetNextFrame \in 0 .. (maxNumberOfNextFrames - 1)
          /\ indexAddNextFrame =
                (indexGetNextFrame + numberOfWaitingFrames) % maxNumberOfNextFrames
          /\ \A k \in DOMAIN WaitingFrames :
                LET f == WaitingFrames[k].frameNumber
                IN /\ f \in DOMAIN accepted
                   /\ WaitingFrames[k].frameBuffer = accepted[f].buffer
                   /\ WaitingFrames[k].frameSize = accepted[f].size
                   /\ ~Reported(f)
                   /\ f > nextFrame.frameNumber
                   /\ f = nextFrameNumber - numberOfWaitingFrames + k)
    /\ [][/\ ((lastOp'.op = "SendNewFrame" /\ nbBuffers' = nbBuffers + 1
                  /\ lastOp'.flush = 1)
               => /\ lastOp'.ret = "OK"
                  /\ indexGetNextFrame' = indexAddNextFrame
                  /\ numberOfWaitingFrames' = 1
                  /\ Len(NewEntries) = numberOfWaitingFrames)
           /\ (PopStep
               => /\ numberOfWaitingFrames > 0
                  /\ numberOfWaitingFrames' = numberOfWaitingFrames - 1
                  /\ indexGetNextFrame' = (indexGetNextFrame + 1) % maxNumberOfNextFrames
                  /\ nextFrame' = WaitingFrames[1]
                  /\ nextFrame'.frameNumber \in DOMAIN accepted
                  /\ ~Reported(nextFrame'.frameNumber)
                  /\ nextFrame'.frameNumber > nextFrame.frameNumber)]_vars

\* the ring is full and has wrapped: frame 1 was dequeued, frames 2 and 3
\* wait in slots 1 and 0, and the fourth submit was refused
C26_Witness ==
    /\ lastOp.op = "SendNewFrame"
    /\ lastOp.ret = "QUEUE_FULL"
    /\ currentFrame.frameNumber = 1
    /\ numberOfWaitingFrames = maxNumberOfNextFrames
    /\ indexGetNextFrame = 1
    /\ indexAddNextFrame = 1
    /\ WaitingFrames[1].frameNumber = 2
    /\ Slot(0).frameNumber = 3

(***************************************************************************)
(* C27                                                                     *)
(***************************************************************************)
\* the ack thread made the FRAME_SENT callback of the current frame
SentFiredForCurrentFrame ==
    /\ currentFrame.frameNumber >= 1
    /\ \E i \in DOMAIN trace : trace[i] = Cb("FRAME_SENT", currentFrame)

\* once FRAME_SENT was made for the current frame, no step hands a fragment
\* of it to the network or counts one, until a frame is installed
NoEmissionAfterSent ==
    (SentFiredForCurrentFrame /\ ~InstallStep) =>
        /\ emitted' = emitted
        /\ numbersOfFragmentsSentForCurrentFrame' = numbersOfFragmentsSentForCurrentFrame
        /\ dataPc' # "netSend"

\* PopFromQueue returns 0
TimedOutDequeue == dataPc = "wait" /\ dataPc' = "lockSend"

\* the pass goes on with the least fragment of rest, or ends if rest is empty
PassGoesOnWith(rest) ==
    IF rest = {}
    THEN dataPc' = "loop"
    ELSE /\ dataPc' = "netSend"
         /\ cnt' \in rest
         /\ \A k \in rest : cnt' <= k
         /\ emitted'[currentFrame.frameNumber] = emitted[currentFrame.frameNumber] \cup {cnt'}

\* C27 as stated: once FRAME_SENT was made for the current frame no
\* fragment of it is handed to the network again; while a fragment is not
\* acknowledged, every dequeue that times out is followed by a pass, which
\* hands every fragment without acknowledge to the network.
C27_RetransmitUntilComplete ==
    /\ [][NoEmissionAfterSent]_vars
    /\ [][/\ (TimedOutDequeue => currentFrame' = currentFrame)
           /\ (PassStep => PassGoesOnWith({k \in Unacked : k > PassAt}))]_vars
    /\ (dataPc = "lockSend") ~> (dataPc = "loop")

\* C27, amended: the same, the pass handing to the network the fragments
\* without acknowledge whose flag in packetsToSend no send callback has
\* cleared when the loop reaches them.
C27_RetransmitFlaggedUntilComplete ==
    /\ [][NoEmissionAfterSent]_vars
    /\ [][/\ (TimedOutDequeue => currentFrame' = currentFrame)
           /\ (PassStep =>
                 PassGoesOnWith({k \in Unacked :
                                    /\ k > PassAt
                                    /\ (dataPc = "netSend" => k \in packetsToSend.bits)}))]_vars
    /\ (dataPc = "lockSend") ~> (dataPc = "loop")

\* frame 1 was emitted once and had FRAME_SENT; a dequeue has timed out
\* since, and the pass that follows is about to start
C27_Witness ==
    /\ SentFiredForCurrentFrame
    /\ currentFrame.frameNumber = 1
    /\ currentFrameCbWasCalled = 1
    /\ dataPc = "lockSend"
    /\ hadTimeout = 1
    /\ numbersOfFragmentsSentForCurrentFrame = nbPackets
    /\ emitted[1] = 0 .. (nbPackets - 1)

\* frame 1 without acknowledge for fragment 1: a second pass has handed
\* fragment 1 to the network again
C27_RetryWitness ==
    /\ currentFrame.frameNumber = 1
    /\ ackPacket.bits = {0, 2}
    /\ dataPc = "loop"
    /\ numbersOfFragmentsSentForCurrentFrame = nbPackets + 1
    /\ ~SentFiredForCurrentFrame

====
